---- MODULE Spec2Model ----
(***************************************************************************)
(* CityMood generation-and-caching pipeline: the job ledger (video_jobs),  *)
(* the admission checks of the submit endpoints and of the widget trigger, *)
(* the pipeline runs (processVideoJob, cityVideoWorkflow,                   *)
(* cityImageWorkflow), the operator retry / delete of failed jobs, the     *)
(* poll endpoint, the weather cache and the widget cache.                  *)
(*                                                                         *)
(* Every await of a handler that reads or writes a shared table is one     *)
(* step, so that handlers and pipeline runs interleave as they do on the   *)
(* server.  Calls to the external providers touch no shared table and are  *)
(* folded into the step that stores their result.  updated_at / created_at *)
(* are not part of a row here: rows are ordered by their id, which is      *)
(* their order of creation.                                                *)
(***************************************************************************)
EXTENDS Integers, Sequences, FiniteSets, Bags, TLC

\* ------------------------------------------------------------ value domains
Null == <<>>

\* process.env.ADMIN_API_KEY; every other key is a standard key
ADMIN_API_KEY == "adm"

WeatherErrors == {"No matching location found.", "Service unavailable"}
GenerationErrors == {"blocked by content policy", "provider timeout"}

\* a weather reading, as far as the pipeline uses it: category and day flag
Weathers == {"sunny_day", "rainy_night"}

\* String.prototype.toLowerCase on the city names of the model
toLowerCase(c) ==
  CASE c = "Paris" -> "paris"
    [] c = "Rome" -> "rome"
    [] c = "New York" -> "new york"
    [] c = "New  York" -> "new  york"
    [] OTHER -> c

\* .replace(/\s+/g, " ") on the names of the model: one name has two blanks
collapseBlanks(c) ==
  CASE c = "new  york" -> "new york"
    [] OTHER -> c

\* src/lib/weather.ts normalizeCity: lower case, trim, runs of blanks made
\* one blank (no name of the model has a blank at either end: every caller
\* trims the city first)
normalizeCity(c) == collapseBlanks(toLowerCase(c))

hashApiKey(k) == <<"sha256", k>>

Cities == {"Paris", "paris", "Rome"}
NormalizedCities == {normalizeCity(c) : c \in Cities}
MediaKeys == NormalizedCities \X Weathers

\* ------------------------------------------------------------------- state
VARIABLES
  jobs,      \* video_jobs table: the row of job id i is jobs[i]
  media,     \* city_images table: <<normalized city, weather>> -> entry
  req,       \* bag of request handlers between two of their awaits
  runs,      \* bag of pipeline runs in progress
  retries,   \* number of operator retries that have reset a job
  retried,   \* ids of the jobs an operator retry has reset
  out,       \* what the last step returned to its caller (NoOut: nothing)
  now,       \* clock of the cache specifications
  weatherCache,  \* weather_cache table: normalized city -> entry
  widgetCache    \* widget_cache table: <<normalized city, hash>> -> entry

vars == <<jobs, media, req, runs, retries, retried, out, now, weatherCache,
          widgetCache>>

cacheVars == <<now, weatherCache, widgetCache>>

NoJob ==
  [api_key_hash |-> Null, status |-> "absent", stage |-> "null",
   job_type |-> "null", city |-> "", weather_data |-> "null",
   image_url |-> Null, video_url |-> Null, error_message |-> Null,
   cached |-> FALSE, completed_at |-> FALSE]

NoEntry ==
  [image_url |-> Null, video_url |-> Null, animation_url |-> Null,
   animation_status |-> "absent"]

NoResp ==
  [status |-> 0, code |-> "none", job |-> 0, message |-> Null, body |-> Null]

NoOut ==
  [op |-> "none", key |-> "", city |-> "", job |-> 0, resp |-> NoResp,
   arg |-> Null]

\* --------------------------------------------------------------- job ledger
JobIds == 1..Len(jobs)

Exists(j) == j \in JobIds /\ jobs[j].status # "absent"

\* src/lib/jobs.ts createJob: inserts a pending row under a fresh id
createJob(apiKey, city, jobType) ==
  Append(jobs,
    [NoJob EXCEPT !.api_key_hash = hashApiKey(apiKey), !.status = "pending",
                  !.job_type = jobType, !.city = city])

getJob(j) == IF Exists(j) THEN jobs[j] ELSE NoJob

IsActive(row) == row.status \in {"pending", "processing"}

MaxOf(S) == CHOOSE x \in S : \A y \in S : y <= x

\* a plausible slip: the status filter names pending only
getActiveJobForApiKeyPendingOnly(apiKey) ==
  LET S == {j \in JobIds : /\ jobs[j].api_key_hash = hashApiKey(apiKey)
                           /\ jobs[j].status = "pending"}
  IN IF S = {} THEN 0 ELSE MaxOf(S)

\* most recent pending/processing job of the key, 0 when there is none
getActiveJobForApiKey(apiKey) ==
  LET S == {j \in JobIds : /\ jobs[j].api_key_hash = hashApiKey(apiKey)
                           /\ IsActive(jobs[j])}
  IN IF S = {} THEN 0 ELSE MaxOf(S)

validateJobOwnership(job, apiKey) == job.api_key_hash = hashApiKey(apiKey)

\* the lower-case strings a lower-case LIKE pattern matches: _ stands for
\* any one character (here the blank of "new york"), every other character
\* for itself
likeMatches(pattern) ==
  CASE pattern = "new_york" -> {"new_york", "new york"}
    [] OTHER -> {pattern}

\* ilike: case-insensitive LIKE of the stored city against the pattern
ilike(stored, pattern) == toLowerCase(stored) \in likeMatches(toLowerCase(pattern))

\* a plausible slip: eq in place of ilike
getActiveJobForCityExact(city, jobType) ==
  LET normalizedCity == toLowerCase(city)
      S == {j \in JobIds : /\ jobs[j].city = normalizedCity
                           /\ jobs[j].job_type = jobType
                           /\ IsActive(jobs[j])}
  IN IF S = {} THEN 0 ELSE MaxOf(S)

\* a plausible slip: the status filter names processing only
getActiveJobForCityProcessingOnly(city, jobType) ==
  LET normalizedCity == toLowerCase(city)
      S == {j \in JobIds : /\ ilike(jobs[j].city, normalizedCity)
                           /\ jobs[j].job_type = jobType
                           /\ jobs[j].status = "processing"}
  IN IF S = {} THEN 0 ELSE MaxOf(S)

\* most recent pending/processing job of that type for the city, 0 if none
getActiveJobForCity(city, jobType) ==
  LET normalizedCity == toLowerCase(city)
      S == {j \in JobIds : /\ ilike(jobs[j].city, normalizedCity)
                           /\ jobs[j].job_type = jobType
                           /\ IsActive(jobs[j])}
  IN IF S = {} THEN 0 ELSE MaxOf(S)

\* an UPDATE ... WHERE id = j changes nothing when the row does not exist
startJob(j) ==
  IF Exists(j)
  THEN [jobs EXCEPT ![j].status = "processing", ![j].stage = "fetching_weather"]
  ELSE jobs

Merge(row, extra) ==
  [f \in DOMAIN row |-> IF f \in DOMAIN extra THEN extra[f] ELSE row[f]]

updateJobStage(j, stage, additionalData) ==
  IF Exists(j)
  THEN [jobs EXCEPT ![j] = Merge([@ EXCEPT !.stage = stage], additionalData)]
  ELSE jobs

\* a plausible slip: completeJob leaves the stage column as it is
completeJobKeepsStage(j, videoUrl, weatherData, imageUrl, cached) ==
  IF Exists(j)
  THEN [jobs EXCEPT ![j].status = "completed",
                    ![j].video_url = videoUrl, ![j].weather_data = weatherData,
                    ![j].image_url = imageUrl, ![j].cached = cached,
                    ![j].completed_at = TRUE]
  ELSE jobs

completeJob(j, videoUrl, weatherData, imageUrl, cached) ==
  IF Exists(j)
  THEN [jobs EXCEPT ![j].status = "completed", ![j].stage = "null",
                    ![j].video_url = videoUrl, ![j].weather_data = weatherData,
                    ![j].image_url = imageUrl, ![j].cached = cached,
                    ![j].completed_at = TRUE]
  ELSE jobs

failJob(j, errorMessage) ==
  IF Exists(j)
  THEN [jobs EXCEPT ![j].status = "failed", ![j].error_message = errorMessage]
  ELSE jobs

\* the UPDATE of the operator retry
resetJob(j) ==
  IF Exists(j)
  THEN [jobs EXCEPT ![j].status = "pending", ![j].stage = "null",
                    ![j].error_message = Null]
  ELSE jobs

\* ---------------------------------------------------------------- responses
\* src/lib/api-utils.ts ERROR_STATUS_MAP
ERROR_STATUS_MAP(code) ==
  CASE code = "RATE_LIMITED" -> 429
    [] code = "INVALID_BODY" -> 400
    [] code = "JOB_NOT_FOUND" -> 404
    [] code = "VIDEO_GENERATION_FAILED" -> 500
    [] OTHER -> 500

createErrorResponse(code, message, job, details) ==
  [status |-> ERROR_STATUS_MAP(code), code |-> code, job |-> job,
   message |-> message, body |-> details]

createSuccessResponse(httpStatus, job, data) ==
  [status |-> httpStatus, code |-> "ok", job |-> job, message |-> Null,
   body |-> data]

Returned(op, key, city, job, resp) ==
  [op |-> op, key |-> key, city |-> city, job |-> job, resp |-> resp,
   arg |-> Null]

\* the route's own admin test: ADMIN_API_KEY && apiKey === ADMIN_API_KEY
isAdmin(apiKey) == apiKey = ADMIN_API_KEY

\* ------------------------------------------------- handlers and runs (bags)
One(x) == SetToBag({x})

Handler(op, pc, key, city, job) ==
  [op |-> op, pc |-> pc, key |-> key, city |-> city, job |-> job,
   arg |-> Null]

\* calls: the generation providers the run has called so far (kept for the
\* properties, no code reads it)
NoRun ==
  [kind |-> "none", job |-> 0, city |-> "", pc |-> "none", weather |-> "null",
   image |-> Null, video |-> Null, cached |-> FALSE, error |-> Null,
   calls |-> {}]

NewRun(kind, j, city) ==
  [NoRun EXCEPT !.kind = kind, !.job = j, !.city = city,
                !.pc = IF kind = "legacy" THEN "getJob" ELSE "start"]

InFlight == BagCardinality(req)

RECURSIVE BagSum(_, _)
BagSum(B, S) ==
  IF S = {} THEN 0
  ELSE LET x == CHOOSE y \in S : TRUE IN B[x] + BagSum(B, S \ {x})

\* number of handlers in flight that are at the given await
AtPc(pc) == BagSum(req, {x \in BagToSet(req) : x.pc = pc})

\* ------------------------------------------------------------------ bounds
MaxJobs == 2        \* job rows ever created
MaxRetries == 2     \* operator retries that reset a job
MaxHandlers == 2    \* request handlers between two awaits at the same time

\* a further handler may be admitted to its insert / to its reset
CanCreate == Len(jobs) + AtPc("create") < MaxJobs
CanRetry == retries + AtPc("reset") < MaxRetries
CanEnter == InFlight < MaxHandlers

RATE_LIMITED_MESSAGE == <<"You already have an active job">>

\* ------------------------- POST /api/v1/city-video, POST /api/v1/city-image
\* step 2 of both routes: a key that is not the admin key is turned away
\* while getActiveJobForApiKey finds a pending/processing job of that key
SubmitReject(op, key, city) ==
  /\ op \in {"submitVideo", "submitImage"}
  /\ LET activeJobId == getActiveJobForApiKey(key) IN
       /\ ~isAdmin(key) /\ activeJobId # 0
       /\ out' = Returned(op, key, city, 0,
                   createErrorResponse("RATE_LIMITED", RATE_LIMITED_MESSAGE, 0,
                                       <<"active_job_id", activeJobId>>))
  /\ UNCHANGED <<jobs, media, req, runs, retries, retried>>
  /\ UNCHANGED cacheVars

\* step 2 found nothing to object to (steps 3-4 validate the body): the
\* handler goes on to createJob
SubmitAdmit(op, key, city) ==
  /\ op \in {"submitVideo", "submitImage"}
  /\ LET activeJobId == getActiveJobForApiKey(key) IN
       ~(~isAdmin(key) /\ activeJobId # 0)
  /\ CanCreate /\ CanEnter
  /\ req' = req (+) One(Handler(op, "create", key, city, 0))
  /\ out' = NoOut
  /\ UNCHANGED <<jobs, media, runs, retries, retried>>
  /\ UNCHANGED cacheVars

\* a plausible slip: a lookup that throws ends the request with an error
SubmitLookupErrorRejects(op, key, city) ==
  /\ op \in {"submitVideo", "submitImage"}
  /\ ~isAdmin(key)
  /\ out' = Returned(op, key, city, 0,
              createErrorResponse("INTERNAL_ERROR",
                                  "Failed to check active jobs", 0, Null))
  /\ UNCHANGED <<jobs, media, req, runs, retries, retried>>
  /\ UNCHANGED cacheVars

\* step 2, getActiveJobForApiKey threw (an error other than PGRST116): the
\* catch block logs it and the handler goes on to createJob, whatever jobs
\* the key has
SubmitLookupError(op, key, city) ==
  /\ op \in {"submitVideo", "submitImage"}
  /\ ~isAdmin(key)
  /\ CanCreate /\ CanEnter
  /\ req' = req (+) One([Handler(op, "create", key, city, 0)
                           EXCEPT !.arg = <<"lookup failed">>])
  /\ out' = NoOut
  /\ UNCHANGED <<jobs, media, runs, retries, retried>>
  /\ UNCHANGED cacheVars

\* steps 5-7 of POST /api/v1/city-video: createJob, processVideoJob(jobId)
\* left running in the background, 202 with the job id
SubmitVideoCreate(h) ==
  /\ BagIn(h, req) /\ h.op = "submitVideo" /\ h.pc = "create"
  /\ jobs' = createJob(h.key, h.city, "video")
  /\ runs' = runs (+) One(NewRun("legacy", Len(jobs) + 1, ""))
  /\ req' = req (-) One(h)
  /\ out' = Returned(h.op, h.key, h.city, Len(jobs) + 1,
              createSuccessResponse(202, Len(jobs) + 1, <<"pending">>))
  /\ UNCHANGED <<media, retries, retried>>
  /\ UNCHANGED cacheVars

\* step 5 of POST /api/v1/city-image: createJob
SubmitImageCreate(h) ==
  /\ BagIn(h, req) /\ h.op = "submitImage" /\ h.pc = "create"
  /\ jobs' = createJob(h.key, h.city, "image")
  /\ req' = (req (-) One(h)) (+) One([h EXCEPT !.pc = "start",
                                              !.job = Len(jobs) + 1])
  /\ out' = NoOut
  /\ UNCHANGED <<media, runs, retries, retried>>
  /\ UNCHANGED cacheVars

\* steps 6-7: start(cityImageWorkflow) (a failed start is logged and the
\* job stays pending), 202 with the job id
SubmitImageStart(h, started) ==
  /\ BagIn(h, req) /\ h.op = "submitImage" /\ h.pc = "start"
  /\ runs' = IF started THEN runs (+) One(NewRun("image", h.job, h.city))
             ELSE runs
  /\ req' = req (-) One(h)
  /\ out' = Returned(h.op, h.key, h.city, h.job,
              createSuccessResponse(202, h.job, <<"pending">>))
  /\ UNCHANGED <<jobs, media, retries, retried>>
  /\ UNCHANGED cacheVars

\* ------------------------------------- src/lib/widget-job.ts (with dedup)
\* getActiveJobForCity(city, "video") finds a job: it is reused
TriggerReuse(key, city) ==
  /\ LET existingJobId == getActiveJobForCity(city, "video") IN
       /\ existingJobId # 0
       /\ out' = Returned("trigger", key, city, existingJobId,
                   createSuccessResponse(200, existingJobId,
                                         <<"alreadyProcessing", TRUE>>))
  /\ UNCHANGED <<jobs, media, req, runs, retries, retried>>
  /\ UNCHANGED cacheVars

\* getActiveJobForCity(city, "video") finds none: on to createJob
TriggerAdmit(key, city) ==
  /\ LET existingJobId == getActiveJobForCity(city, "video") IN
       existingJobId = 0
  /\ CanCreate /\ CanEnter
  /\ req' = req (+) One(Handler("trigger", "create", key, city, 0))
  /\ out' = NoOut
  /\ UNCHANGED <<jobs, media, runs, retries, retried>>
  /\ UNCHANGED cacheVars

\* getActiveJobForCity met an error other than PGRST116: it returns null,
\* and triggerVideoGeneration goes on to createJob
TriggerLookupError(key, city) ==
  /\ CanCreate /\ CanEnter
  /\ req' = req (+) One([Handler("trigger", "create", key, city, 0)
                           EXCEPT !.arg = <<"lookup failed">>])
  /\ out' = NoOut
  /\ UNCHANGED <<jobs, media, runs, retries, retried>>
  /\ UNCHANGED cacheVars

\* a plausible slip: the job is created under the service's own key
TriggerCreateUnderServiceKey(h) ==
  /\ BagIn(h, req) /\ h.op = "trigger" /\ h.pc = "create"
  /\ jobs' = createJob(ADMIN_API_KEY, h.city, "video")
  /\ req' = (req (-) One(h)) (+) One([h EXCEPT !.pc = "start",
                                              !.job = Len(jobs) + 1])
  /\ out' = NoOut
  /\ UNCHANGED <<media, runs, retries, retried>>
  /\ UNCHANGED cacheVars

\* createJob(apiKey, city, country, "video")
TriggerCreate(h) ==
  /\ BagIn(h, req) /\ h.op = "trigger" /\ h.pc = "create"
  /\ jobs' = createJob(h.key, h.city, "video")
  /\ req' = (req (-) One(h)) (+) One([h EXCEPT !.pc = "start",
                                              !.job = Len(jobs) + 1])
  /\ out' = NoOut
  /\ UNCHANGED <<media, runs, retries, retried>>
  /\ UNCHANGED cacheVars

\* a plausible slip: the failure of start is passed on to the caller
TriggerStartRaises(h, started) ==
  /\ BagIn(h, req) /\ h.op = "trigger" /\ h.pc = "start"
  /\ runs' = IF started THEN runs (+) One(NewRun("video", h.job, h.city))
             ELSE runs
  /\ req' = req (-) One(h)
  /\ out' = Returned(h.op, h.key, h.city, h.job,
              IF started
              THEN createSuccessResponse(200, h.job,
                                         <<"alreadyProcessing", FALSE>>)
              ELSE createErrorResponse("INTERNAL_ERROR",
                     "Failed to start workflow", 0, Null))
  /\ UNCHANGED <<jobs, media, retries, retried>>
  /\ UNCHANGED cacheVars

\* start(cityVideoWorkflow); a failed start is logged only
TriggerStart(h, started) ==
  /\ BagIn(h, req) /\ h.op = "trigger" /\ h.pc = "start"
  /\ runs' = IF started THEN runs (+) One(NewRun("video", h.job, h.city))
             ELSE runs
  /\ req' = req (-) One(h)
  /\ out' = Returned(h.op, h.key, h.city, h.job,
              createSuccessResponse(200, h.job, <<"alreadyProcessing", FALSE>>))
  /\ UNCHANGED <<jobs, media, retries, retried>>
  /\ UNCHANGED cacheVars

\* ------------------ src/lib/widget-job.ts, the variant that looks up nothing
\* createJob(apiKey, city, country, "video") is its first await
TriggerPlainCreate(key, city) ==
  /\ CanCreate /\ CanEnter
  /\ jobs' = createJob(key, city, "video")
  /\ req' = req (+) One(Handler("triggerPlain", "start", key, city,
                                Len(jobs) + 1))
  /\ out' = NoOut
  /\ UNCHANGED <<media, runs, retries, retried>>
  /\ UNCHANGED cacheVars

\* start(cityVideoWorkflow); a failed start is logged only; the job id
TriggerPlainStart(h, started) ==
  /\ BagIn(h, req) /\ h.op = "triggerPlain" /\ h.pc = "start"
  /\ runs' = IF started THEN runs (+) One(NewRun("video", h.job, h.city))
             ELSE runs
  /\ req' = req (-) One(h)
  /\ out' = Returned(h.op, h.key, h.city, h.job,
              createSuccessResponse(200, h.job, Null))
  /\ UNCHANGED <<jobs, media, retries, retried>>
  /\ UNCHANGED cacheVars

\* ------------------------------------------------------------- media cache
\* src/lib/gemini.ts getCachedImage
getCachedImage(city, w) == media[<<normalizeCity(city), w>>]

imagePublicUrl(city, w) == <<"png", normalizeCity(city), w>>
videoPublicUrl(city, w) == <<"mp4", normalizeCity(city), w>>
apngPublicUrl(city, w) == <<"apng", normalizeCity(city), w>>

\* the upsert at the end of generateImage: image_url is written, the other
\* columns keep their value (animation_status defaults to 'none' on insert)
upsertCityImage(city, w) ==
  LET k == <<normalizeCity(city), w>> IN
  IF media[k].animation_status = "absent"
  THEN [media EXCEPT ![k] = [NoEntry EXCEPT !.image_url = imagePublicUrl(city, w),
                                            !.animation_status = "none"]]
  ELSE [media EXCEPT ![k].image_url = imagePublicUrl(city, w)]

\* a plausible slip: the update rewrites the whole row, the image URL is lost
updateAnimationStatusRewritesRow(city, w, status, animationUrl, videoUrl) ==
  LET k == <<normalizeCity(city), w>> IN
  IF media[k].animation_status = "absent"
  THEN media
  ELSE [media EXCEPT ![k] = [NoEntry EXCEPT !.animation_status = status,
                                            !.animation_url = animationUrl,
                                            !.video_url = videoUrl]]

\* src/lib/gemini.ts updateAnimationStatus: the URLs are written only when
\* given; no row, no change
updateAnimationStatus(city, w, status, animationUrl, videoUrl) ==
  LET k == <<normalizeCity(city), w>> IN
  IF media[k].animation_status = "absent"
  THEN media
  ELSE [media EXCEPT
         ![k].animation_status = status,
         ![k].animation_url = IF animationUrl # Null THEN animationUrl ELSE @,
         ![k].video_url = IF videoUrl # Null THEN videoUrl ELSE @]

\* ------------------------------------------------------------ pipeline runs
\* the run r takes a step and becomes the run r2
Move(r, r2) == (runs (-) One(r)) (+) One(r2)

IsLocationNotFound(message) == message = "No matching location found."

\* src/workflows/steps/fetch-weather.ts fetchWeatherStep: the message the
\* step throws for a weather error
fetchWeatherStepError(city, message) ==
  IF IsLocationNotFound(message)
  THEN <<"Invalid location", city>>
  ELSE <<message>>

\* the class of what the weather stage throws: fetchWeatherStep throws a
\* FatalError for a missing location and rethrows anything else; the catch
\* block of processVideoJob sees the provider's plain Error
weatherFailureClass(kind, message) ==
  IF kind # "legacy" /\ IsLocationNotFound(message) THEN "FatalError"
  ELSE "Error"

IsWorkflow(r) == r.kind \in {"video", "image"}

\* startJobStep(jobId)
WfStartJob(r) ==
  /\ BagIn(r, runs) /\ IsWorkflow(r) /\ r.pc = "start"
  /\ jobs' = startJob(r.job)
  /\ runs' = Move(r, [r EXCEPT !.pc = "stage1"])
  /\ out' = NoOut
  /\ UNCHANGED <<media, req, retries, retried>>
  /\ UNCHANGED cacheVars

\* updateJobStageStep(jobId, "fetching_weather")
WfStageWeather(r) ==
  /\ BagIn(r, runs) /\ IsWorkflow(r) /\ r.pc = "stage1"
  /\ jobs' = updateJobStage(r.job, "fetching_weather", Null)
  /\ runs' = Move(r, [r EXCEPT !.pc = "weather"])
  /\ out' = NoOut
  /\ UNCHANGED <<media, req, retries, retried>>
  /\ UNCHANGED cacheVars

\* fetchWeatherStep succeeded: updateJobStageStep(jobId, "generating_image",
\* {weather_data})
WfWeatherOk(r, w) ==
  /\ BagIn(r, runs) /\ IsWorkflow(r) /\ r.pc = "weather"
  /\ jobs' = updateJobStage(r.job, "generating_image",
       [weather_data |-> w])
  /\ runs' = Move(r, [r EXCEPT !.pc = "image", !.weather = w])
  /\ out' = NoOut
  /\ UNCHANGED <<media, req, retries, retried>>
  /\ UNCHANGED cacheVars

\* fetchWeatherStep threw: the catch block calls failJobStep(jobId, message)
WfWeatherFail(r, e) ==
  /\ BagIn(r, runs) /\ IsWorkflow(r) /\ r.pc = "weather"
  /\ jobs' = failJob(r.job, fetchWeatherStepError(r.city, e))
  /\ runs' = runs (-) One(r)
  /\ out' = NoOut
  /\ UNCHANGED <<media, req, retries, retried>>
  /\ UNCHANGED cacheVars

\* a plausible slip: the entry is not looked at, the image always generated
ImageLookupSkipped(r) ==
  /\ BagIn(r, runs) /\ r.pc = "image"
  /\ runs' = Move(r, [r EXCEPT !.pc = "imageGen"])
  /\ out' = NoOut
  /\ UNCHANGED <<jobs, media, req, retries, retried>>
  /\ UNCHANGED cacheVars

\* getOrGenerateImage, first await: getCachedImage
ImageLookup(r) ==
  /\ BagIn(r, runs) /\ r.pc = "image"
  /\ LET cached == getCachedImage(r.city, r.weather) IN
       IF cached.animation_status # "absent"
       THEN runs' = Move(r, [r EXCEPT !.pc = "afterImage",
                                 !.image = cached.image_url,
                                 !.video = cached.video_url,
                                 !.cached = TRUE])
       ELSE runs' = Move(r, [r EXCEPT !.pc = "imageGen"])
  /\ out' = NoOut
  /\ UNCHANGED <<jobs, media, req, retries, retried>>
  /\ UNCHANGED cacheVars

\* a plausible slip: the freshly generated image is reported as cached
ImageGenOkReportsCached(r) ==
  /\ BagIn(r, runs) /\ r.pc = "imageGen"
  /\ media' = upsertCityImage(r.city, r.weather)
  /\ runs' = Move(r, [r EXCEPT !.pc = "afterImage",
                          !.image = imagePublicUrl(r.city, r.weather),
                          !.video = Null,
                          !.cached = TRUE,
                          !.calls = @ \cup {"image"}])
  /\ out' = NoOut
  /\ UNCHANGED <<jobs, req, retries, retried>>
  /\ UNCHANGED cacheVars

\* generateImage succeeded: upload and upsert into city_images
ImageGenOk(r) ==
  /\ BagIn(r, runs) /\ r.pc = "imageGen"
  /\ media' = upsertCityImage(r.city, r.weather)
  /\ runs' = Move(r, [r EXCEPT !.pc = "afterImage",
                          !.image = imagePublicUrl(r.city, r.weather),
                          !.video = Null,
                          !.cached = FALSE,
                          !.calls = @ \cup {"image"}])
  /\ out' = NoOut
  /\ UNCHANGED <<jobs, req, retries, retried>>
  /\ UNCHANGED cacheVars

\* generateImage threw: failJob with the step's message
ImageGenFail(r, e) ==
  /\ BagIn(r, runs) /\ r.pc = "imageGen"
  /\ jobs' = failJob(r.job,
       IF r.kind = "legacy"
       THEN <<"Image generation failed", e>> ELSE <<e>>)
  /\ runs' = runs (-) One(r)
  /\ out' = NoOut
  /\ UNCHANGED <<media, req, retries, retried>>
  /\ UNCHANGED cacheVars

\* a plausible slip: completeImageJobStep called without the cached flag
WfImageCompleteNotCached(r) ==
  /\ BagIn(r, runs) /\ r.kind = "image" /\ r.pc = "afterImage"
  /\ jobs' = completeJob(r.job, r.image, r.weather,
                         r.image, FALSE)
  /\ runs' = runs (-) One(r)
  /\ out' = NoOut
  /\ UNCHANGED <<media, req, retries, retried>>
  /\ UNCHANGED cacheVars

\* cityImageWorkflow: completeImageJobStep(jobId, imageUrl, weather, cached)
WfImageComplete(r) ==
  /\ BagIn(r, runs) /\ r.kind = "image" /\ r.pc = "afterImage"
  /\ jobs' = completeJob(r.job, r.image, r.weather,
                         r.image, r.cached)
  /\ runs' = runs (-) One(r)
  /\ out' = NoOut
  /\ UNCHANGED <<media, req, retries, retried>>
  /\ UNCHANGED cacheVars

\* cityVideoWorkflow: the cached entry already has a video
WfVideoCached(r) ==
  /\ BagIn(r, runs) /\ r.kind = "video" /\ r.pc = "afterImage"
  /\ r.video # Null
  /\ jobs' = completeJob(r.job, r.video, r.weather,
                         r.image, TRUE)
  /\ runs' = runs (-) One(r)
  /\ out' = NoOut
  /\ UNCHANGED <<media, req, retries, retried>>
  /\ UNCHANGED cacheVars

\* a plausible slip: the stage written before the video call is the last one
WfStageVideoSkips(r) ==
  /\ BagIn(r, runs) /\ r.kind = "video" /\ r.pc = "afterImage"
  /\ r.video = Null
  /\ jobs' = updateJobStage(r.job, "processing_video",
                            [image_url |-> r.image])
  /\ runs' = Move(r, [r EXCEPT !.pc = "video"])
  /\ out' = NoOut
  /\ UNCHANGED <<media, req, retries, retried>>
  /\ UNCHANGED cacheVars

\* updateJobStageStep(jobId, "generating_video", {image_url})
WfStageVideo(r) ==
  /\ BagIn(r, runs) /\ r.kind = "video" /\ r.pc = "afterImage"
  /\ r.video = Null
  /\ jobs' = updateJobStage(r.job, "generating_video",
                            [image_url |-> r.image])
  /\ runs' = Move(r, [r EXCEPT !.pc = "video"])
  /\ out' = NoOut
  /\ UNCHANGED <<media, req, retries, retried>>
  /\ UNCHANGED cacheVars

\* generateVideoStep succeeded: updateJobStageStep(jobId, "processing_video")
WfVideoOk(r) ==
  /\ BagIn(r, runs) /\ r.kind = "video" /\ r.pc = "video"
  /\ jobs' = updateJobStage(r.job, "processing_video", Null)
  /\ runs' = Move(r, [r EXCEPT !.pc = "procMark",
                          !.calls = @ \cup {"video"}])
  /\ out' = NoOut
  /\ UNCHANGED <<media, req, retries, retried>>
  /\ UNCHANGED cacheVars

\* a plausible slip: a retry loop, the failed video stage is entered again
WfVideoFailRetried(r, e) ==
  /\ BagIn(r, runs) /\ r.kind = "video" /\ r.pc = "video"
  /\ runs' = Move(r, [r EXCEPT !.pc = "afterImage"])
  /\ out' = NoOut
  /\ UNCHANGED <<jobs, media, req, retries, retried>>
  /\ UNCHANGED cacheVars

\* generateVideoStep threw
WfVideoFail(r, e) ==
  /\ BagIn(r, runs) /\ r.kind = "video" /\ r.pc = "video"
  /\ jobs' = failJob(r.job, <<e>>)
  /\ runs' = runs (-) One(r)
  /\ out' = NoOut
  /\ UNCHANGED <<media, req, retries, retried>>
  /\ UNCHANGED cacheVars

\* processVideoStep: updateAnimationStatus(..., "processing")
WfProcMark(r) ==
  /\ BagIn(r, runs) /\ r.kind = "video" /\ r.pc = "procMark"
  /\ media' = updateAnimationStatus(r.city, r.weather,
                                    "processing", Null, Null)
  /\ runs' = Move(r, [r EXCEPT !.pc = "proc"])
  /\ out' = NoOut
  /\ UNCHANGED <<jobs, req, retries, retried>>
  /\ UNCHANGED cacheVars

\* a plausible slip: the status is set to completed without the URLs
WfProcOkStatusOnly(r) ==
  /\ BagIn(r, runs) /\ r.kind = "video" /\ r.pc = "proc"
  /\ LET videoUrl == videoPublicUrl(r.city, r.weather) IN
       /\ media' = updateAnimationStatus(r.city, r.weather,
                                         "completed", Null, Null)
       /\ runs' = Move(r, [r EXCEPT !.pc = "complete", !.video = videoUrl])
  /\ out' = NoOut
  /\ UNCHANGED <<jobs, req, retries, retried>>
  /\ UNCHANGED cacheVars

\* processVideoStep: boomerang and upload succeeded
WfProcOk(r) ==
  /\ BagIn(r, runs) /\ r.kind = "video" /\ r.pc = "proc"
  /\ LET videoUrl == videoPublicUrl(r.city, r.weather) IN
       /\ media' = updateAnimationStatus(r.city, r.weather,
                                         "completed", videoUrl, videoUrl)
       /\ runs' = Move(r, [r EXCEPT !.pc = "complete", !.video = videoUrl])
  /\ out' = NoOut
  /\ UNCHANGED <<jobs, req, retries, retried>>
  /\ UNCHANGED cacheVars

\* processVideoStep: boomerang or upload threw
WfProcFail(r) ==
  /\ BagIn(r, runs) /\ r.kind = "video" /\ r.pc = "proc"
  /\ media' = updateAnimationStatus(r.city, r.weather,
                                    "failed", Null, Null)
  /\ \E e \in {"ffmpeg failed"} :
       runs' = Move(r, [r EXCEPT !.pc = "fail", !.error = <<e>>])
  /\ out' = NoOut
  /\ UNCHANGED <<jobs, req, retries, retried>>
  /\ UNCHANGED cacheVars

\* a plausible slip: the freshly produced video is completed as cached
WfCompleteReportsCached(r) ==
  /\ BagIn(r, runs) /\ r.kind = "video" /\ r.pc = "complete"
  /\ jobs' = completeJob(r.job, r.video, r.weather,
                         r.image, TRUE)
  /\ runs' = runs (-) One(r)
  /\ out' = NoOut
  /\ UNCHANGED <<media, req, retries, retried>>
  /\ UNCHANGED cacheVars

\* completeVideoJobStep(jobId, videoUrl, weather, imageUrl)
WfComplete(r) ==
  /\ BagIn(r, runs) /\ r.kind = "video" /\ r.pc = "complete"
  /\ jobs' = completeJob(r.job, r.video, r.weather,
                         r.image, FALSE)
  /\ runs' = runs (-) One(r)
  /\ out' = NoOut
  /\ UNCHANGED <<media, req, retries, retried>>
  /\ UNCHANGED cacheVars

\* the catch block after a failed processVideoStep
WfFail(r) ==
  /\ BagIn(r, runs) /\ r.kind = "video" /\ r.pc = "fail"
  /\ jobs' = failJob(r.job, r.error)
  /\ runs' = runs (-) One(r)
  /\ out' = NoOut
  /\ UNCHANGED <<media, req, retries, retried>>
  /\ UNCHANGED cacheVars

\* ------------------------------------ processVideoJob (job-processor.ts)
\* getJob(jobId): a missing job ends the run
LgGetJob(r) ==
  /\ BagIn(r, runs) /\ r.kind = "legacy" /\ r.pc = "getJob"
  /\ LET job == getJob(r.job) IN
       IF job.status = "absent"
       THEN runs' = runs (-) One(r)
       ELSE runs' = Move(r, [r EXCEPT !.pc = "start", !.city = job.city])
  /\ out' = NoOut
  /\ UNCHANGED <<jobs, media, req, retries, retried>>
  /\ UNCHANGED cacheVars

\* a plausible slip: processVideoJob goes on to stage 1 without calling startJob
LgStartJobSkipped(r) ==
  /\ BagIn(r, runs) /\ r.kind = "legacy" /\ r.pc = "start"
  /\ jobs' = jobs
  /\ runs' = Move(r, [r EXCEPT !.pc = "weather"])
  /\ out' = NoOut
  /\ UNCHANGED <<media, req, retries, retried>>
  /\ UNCHANGED cacheVars

LgStartJob(r) ==
  /\ BagIn(r, runs) /\ r.kind = "legacy" /\ r.pc = "start"
  /\ jobs' = startJob(r.job)
  /\ runs' = Move(r, [r EXCEPT !.pc = "weather"])
  /\ out' = NoOut
  /\ UNCHANGED <<media, req, retries, retried>>
  /\ UNCHANGED cacheVars

\* stage 1 succeeded: updateJobStage(jobId, "generating_image", {weather_data})
LgWeatherOk(r, w) ==
  /\ BagIn(r, runs) /\ r.kind = "legacy" /\ r.pc = "weather"
  /\ jobs' = updateJobStage(r.job, "generating_image",
       [weather_data |-> w])
  /\ runs' = Move(r, [r EXCEPT !.pc = "image", !.weather = w])
  /\ out' = NoOut
  /\ UNCHANGED <<media, req, retries, retried>>
  /\ UNCHANGED cacheVars

\* stage 1 threw: failJob(jobId, `Weather fetch failed: ${message}`)
LgWeatherFail(r, e) ==
  /\ BagIn(r, runs) /\ r.kind = "legacy" /\ r.pc = "weather"
  /\ jobs' = failJob(r.job, <<"Weather fetch failed", e>>)
  /\ runs' = runs (-) One(r)
  /\ out' = NoOut
  /\ UNCHANGED <<media, req, retries, retried>>
  /\ UNCHANGED cacheVars

\* video already cached: completeJob(jobId, videoUrl, weather, imageUrl)
LgVideoCached(r) ==
  /\ BagIn(r, runs) /\ r.kind = "legacy" /\ r.pc = "afterImage"
  /\ r.video # Null
  /\ jobs' = completeJob(r.job, r.video, r.weather,
                         r.image, FALSE)
  /\ runs' = runs (-) One(r)
  /\ out' = NoOut
  /\ UNCHANGED <<media, req, retries, retried>>
  /\ UNCHANGED cacheVars

\* updateJobStage(jobId, "generating_video", {image_url})
LgStageVideo(r) ==
  /\ BagIn(r, runs) /\ r.kind = "legacy" /\ r.pc = "afterImage"
  /\ r.video = Null
  /\ jobs' = updateJobStage(r.job, "generating_video",
                            [image_url |-> r.image])
  /\ runs' = Move(r, [r EXCEPT !.pc = "stage3"])
  /\ out' = NoOut
  /\ UNCHANGED <<media, req, retries, retried>>
  /\ UNCHANGED cacheVars

\* updateJobStage(jobId, "generating_video") at the head of stage 3
LgStageVideoAgain(r) ==
  /\ BagIn(r, runs) /\ r.kind = "legacy" /\ r.pc = "stage3"
  /\ jobs' = updateJobStage(r.job, "generating_video", Null)
  /\ runs' = Move(r, [r EXCEPT !.pc = "anim"])
  /\ out' = NoOut
  /\ UNCHANGED <<media, req, retries, retried>>
  /\ UNCHANGED cacheVars

NoUrlError == <<"Video generation failed", "Video generation did not return a URL">>

\* getOrGenerateAnimation, first await: getCachedImage
LgAnimLookup(r) ==
  /\ BagIn(r, runs) /\ r.kind = "legacy" /\ r.pc = "anim"
  /\ LET cached == getCachedImage(r.city, r.weather) IN
       IF cached.animation_status = "completed" /\ cached.animation_url # Null
       THEN runs' = Move(r, [r EXCEPT !.pc = "finish",
                                 !.video = cached.video_url,
                                 !.error = IF cached.video_url = Null
                                              THEN NoUrlError ELSE Null])
       ELSE IF cached.animation_status = "processing"
       THEN runs' = Move(r, [r EXCEPT !.pc = "finish", !.error = NoUrlError])
       ELSE runs' = Move(r, [r EXCEPT !.pc = "animMark"])
  /\ out' = NoOut
  /\ UNCHANGED <<jobs, media, req, retries, retried>>
  /\ UNCHANGED cacheVars

\* generateAnimation: updateAnimationStatus(..., "processing")
LgAnimMark(r) ==
  /\ BagIn(r, runs) /\ r.kind = "legacy" /\ r.pc = "animMark"
  /\ media' = updateAnimationStatus(r.city, r.weather,
                                    "processing", Null, Null)
  /\ runs' = Move(r, [r EXCEPT !.pc = "animGen"])
  /\ out' = NoOut
  /\ UNCHANGED <<jobs, req, retries, retried>>
  /\ UNCHANGED cacheVars

\* generateAnimation succeeded: both URLs are stored
LgAnimOk(r) ==
  /\ BagIn(r, runs) /\ r.kind = "legacy" /\ r.pc = "animGen"
  /\ LET videoUrl == videoPublicUrl(r.city, r.weather) IN
       /\ media' = updateAnimationStatus(r.city, r.weather,
                     "completed", apngPublicUrl(r.city, r.weather),
                     videoUrl)
       /\ runs' = Move(r, [r EXCEPT !.pc = "finish", !.video = videoUrl,
                               !.calls = @ \cup {"video"}])
  /\ out' = NoOut
  /\ UNCHANGED <<jobs, req, retries, retried>>
  /\ UNCHANGED cacheVars

\* generateAnimation, generateVideoFromImage threw: status failed, getOrGenerateAnimation returns no URL
LgAnimFail(r) ==
  /\ BagIn(r, runs) /\ r.kind = "legacy" /\ r.pc = "animGen"
  /\ media' = updateAnimationStatus(r.city, r.weather,
                                    "failed", Null, Null)
  /\ runs' = Move(r, [r EXCEPT !.pc = "finish", !.error = NoUrlError,
                          !.calls = @ \cup {"video"}])
  /\ out' = NoOut
  /\ UNCHANGED <<jobs, req, retries, retried>>
  /\ UNCHANGED cacheVars

\* generateAnimation, the video is there and convertMp4ToApng or an upload
\* threw: the same catch block, status failed, no URL
LgAnimConvertFail(r) ==
  /\ BagIn(r, runs) /\ r.kind = "legacy" /\ r.pc = "animGen"
  /\ media' = updateAnimationStatus(r.city, r.weather,
                                    "failed", Null, Null)
  /\ runs' = Move(r, [r EXCEPT !.pc = "finish", !.error = NoUrlError,
                          !.calls = @ \cup {"video"}])
  /\ out' = NoOut
  /\ UNCHANGED <<jobs, req, retries, retried>>
  /\ UNCHANGED cacheVars

LgComplete(r) ==
  /\ BagIn(r, runs) /\ r.kind = "legacy" /\ r.pc = "finish"
  /\ r.error = Null
  /\ jobs' = completeJob(r.job, r.video, r.weather,
                         r.image, FALSE)
  /\ runs' = runs (-) One(r)
  /\ out' = NoOut
  /\ UNCHANGED <<media, req, retries, retried>>
  /\ UNCHANGED cacheVars

LgFail(r) ==
  /\ BagIn(r, runs) /\ r.kind = "legacy" /\ r.pc = "finish"
  /\ r.error # Null
  /\ jobs' = failJob(r.job, r.error)
  /\ runs' = runs (-) One(r)
  /\ out' = NoOut
  /\ UNCHANGED <<media, req, retries, retried>>
  /\ UNCHANGED cacheVars

\* startJob's UPDATE returned an error: the catch block of the workflow
\* calls failJobStep with the message of the error
WfStartJobError(r) ==
  /\ BagIn(r, runs) /\ IsWorkflow(r) /\ r.pc = "start"
  /\ jobs' = failJob(r.job, <<"Failed to start job">>)
  /\ runs' = runs (-) One(r)
  /\ out' = NoOut
  /\ UNCHANGED <<media, req, retries, retried>>
  /\ UNCHANGED cacheVars

\* startJob's UPDATE returned an error: the outer catch of processVideoJob
\* calls failJob(jobId, `Unexpected error: ${message}`)
LgStartJobError(r) ==
  /\ BagIn(r, runs) /\ r.kind = "legacy" /\ r.pc = "start"
  /\ jobs' = failJob(r.job, <<"Unexpected error", "Failed to start job">>)
  /\ runs' = runs (-) One(r)
  /\ out' = NoOut
  /\ UNCHANGED <<media, req, retries, retried>>
  /\ UNCHANGED cacheVars

\* ------------------------------------- operator routes (admin/failed-jobs)
\* what both routes answer for a job they do not accept
operatorRefusal(job, verb) ==
  IF job.status = "absent"
  THEN createErrorResponse("JOB_NOT_FOUND", <<"Job not found">>, 0, Null)
  ELSE createErrorResponse("INVALID_BODY",
         <<"Cannot", verb, "job with status", job.status>>, 0, Null)

\* POST: the job is read; a job that is missing or not failed is refused
RetryReject(j) ==
  /\ LET job == getJob(j) IN
       /\ job.status # "failed"
       /\ out' = Returned("retry", ADMIN_API_KEY, "", j,
                   operatorRefusal(job, "retry"))
  /\ UNCHANGED <<jobs, media, req, runs, retries, retried>>
  /\ UNCHANGED cacheVars

\* a plausible slip: the status test of the retry route lets a completed job through
RetryAdmitAnyTerminal(j) ==
  /\ LET job == getJob(j) IN
       /\ job.status \in {"failed", "completed"}
       /\ CanRetry /\ CanEnter
       /\ req' = req (+) One(Handler("retry", "reset", ADMIN_API_KEY,
                                     job.city, j))
  /\ out' = NoOut
  /\ UNCHANGED <<jobs, media, runs, retries, retried>>
  /\ UNCHANGED cacheVars

\* POST: the job is read and is failed: on to the reset
RetryAdmit(j) ==
  /\ LET job == getJob(j) IN
       /\ job.status = "failed"
       /\ CanRetry /\ CanEnter
       /\ req' = req (+) One(Handler("retry", "reset", ADMIN_API_KEY,
                                     job.city, j))
  /\ out' = NoOut
  /\ UNCHANGED <<jobs, media, runs, retries, retried>>
  /\ UNCHANGED cacheVars

\* POST: reset the row to pending, start(cityVideoWorkflow) whatever the
\* job's type (a failed start is logged only), 200
RetryReset(h, started) ==
  /\ BagIn(h, req) /\ h.op = "retry" /\ h.pc = "reset"
  /\ jobs' = resetJob(h.job)
  /\ retried' = IF Exists(h.job) THEN retried \cup {h.job} ELSE retried
  /\ retries' = retries + 1
  /\ runs' = IF started THEN runs (+) One(NewRun("video", h.job, h.city))
             ELSE runs
  /\ req' = req (-) One(h)
  /\ out' = Returned("retry", h.key, h.city, h.job,
              createSuccessResponse(200, h.job,
                                    <<"Job has been queued for retry">>))
  /\ UNCHANGED media
  /\ UNCHANGED cacheVars

\* DELETE: the job is read; a job that is missing or not failed is refused
DeleteReject(j) ==
  /\ LET job == getJob(j) IN
       /\ job.status # "failed"
       /\ out' = Returned("delete", ADMIN_API_KEY, "", j,
                   operatorRefusal(job, "delete"))
  /\ UNCHANGED <<jobs, media, req, runs, retries, retried>>
  /\ UNCHANGED cacheVars

\* DELETE: the job is read and is failed: on to the delete
DeleteAdmit(j) ==
  /\ LET job == getJob(j) IN
       /\ job.status = "failed"
       /\ CanEnter
       /\ req' = req (+) One(Handler("delete", "remove", ADMIN_API_KEY,
                                     job.city, j))
  /\ out' = NoOut
  /\ UNCHANGED <<jobs, media, runs, retries, retried>>
  /\ UNCHANGED cacheVars

\* DELETE: delete the row
DeleteRow(h) ==
  /\ BagIn(h, req) /\ h.op = "delete" /\ h.pc = "remove"
  /\ jobs' = IF Exists(h.job) THEN [jobs EXCEPT ![h.job] = NoJob] ELSE jobs
  /\ req' = req (-) One(h)
  /\ out' = Returned("delete", h.key, h.city, h.job,
              createSuccessResponse(200, h.job, <<"deleted">>))
  /\ UNCHANGED <<media, runs, retries, retried>>
  /\ UNCHANGED cacheVars

\* ------------------------------------- poll (GET /api/v1/city-image/:jobId)
buildJobResponse(job) ==
  IF job.status = "completed" /\ job.video_url # Null
     /\ job.weather_data # "null"
  THEN <<"completed", job.city, job.video_url, job.weather_data, job.cached>>
  ELSE IF job.stage # "null"
  THEN <<job.status, job.stage>>
  ELSE <<job.status>>

JobNotFound(jobId) ==
  createErrorResponse("JOB_NOT_FOUND",
    <<"Job", jobId, "not found. It may have expired or never existed.">>,
    0, Null)

\* a plausible slip: the failed branch of GET placed before the ownership test
pollResponseFailedFirst(apiKey, jobId, job) ==
  IF job.status = "absent"
  THEN JobNotFound(jobId)
  ELSE IF job.status = "failed"
  THEN createErrorResponse("VIDEO_GENERATION_FAILED",
         IF job.error_message # Null THEN job.error_message
         ELSE <<"Image generation failed">>,
         jobId, <<"stage", job.stage>>)
  ELSE IF ~isAdmin(apiKey) /\ ~validateJobOwnership(job, apiKey)
  THEN JobNotFound(jobId)
  ELSE createSuccessResponse(200, jobId, buildJobResponse(job))

\* steps 3-6 of GET: the job is read, then ownership, then the status
pollResponse(apiKey, jobId, job) ==
  IF job.status = "absent"
  THEN JobNotFound(jobId)
  ELSE IF ~isAdmin(apiKey) /\ ~validateJobOwnership(job, apiKey)
  THEN JobNotFound(jobId)
  ELSE IF job.status = "failed"
  THEN createErrorResponse("VIDEO_GENERATION_FAILED",
         IF job.error_message # Null THEN job.error_message
         ELSE <<"Image generation failed">>,
         jobId, <<"stage", job.stage>>)
  ELSE createSuccessResponse(200, jobId, buildJobResponse(job))

Poll(key, j) ==
  /\ out' = Returned("poll", key, "", j, pollResponse(key, j, getJob(j)))
  /\ UNCHANGED <<jobs, media, req, runs, retries, retried>>
  /\ UNCHANGED cacheVars

\* ----------------------------------------------------------------- the clock
MaxTicks == 4       \* half hours the clock of the cache specifications runs

\* src/lib/weather.ts:  const CACHE_DURATION_MS = 60 * 60 * 1000
CACHE_DURATION_MS == 3600000

HalfHour == CACHE_DURATION_MS \div 2

\* half an hour passes
Tick ==
  /\ now < MaxTicks * HalfHour
  /\ now' = now + HalfHour
  /\ out' = NoOut
  /\ UNCHANGED <<jobs, media, req, runs, retries, retried, weatherCache,
                 widgetCache>>

\* ------------------------------------------- weather cache (src/lib/weather)
NoWeather == [weather_category |-> "null", fetched_at |-> 0, present |-> FALSE]

\* a plausible slip: an entry exactly one hour old still counts as fresh
isCacheFreshInclusive(fetchedAt) == now - fetchedAt <= CACHE_DURATION_MS

isCacheFresh(fetchedAt) == now - fetchedAt < CACHE_DURATION_MS

\* the WeatherData returned: the category and the cached flag
WeatherData(category, cached) ==
  [NoResp EXCEPT !.code = "weather", !.body = <<category, cached>>]

\* getWeatherForCity, first await: the row of the normalized city is there
\* and fresh, and is returned with cached: true
WeatherHit(city) ==
  /\ LET cached == weatherCache[normalizeCity(city)] IN
       /\ cached.present /\ isCacheFresh(cached.fetched_at)
       /\ out' = Returned("weather", "", city, 0,
                   WeatherData(cached.weather_category, TRUE))
  /\ UNCHANGED <<jobs, media, req, runs, retries, retried>>
  /\ UNCHANGED cacheVars

\* getWeatherForCity, first await: no row, or a row that is not fresh
WeatherMiss(city) ==
  /\ LET cached == weatherCache[normalizeCity(city)] IN
       ~(cached.present /\ isCacheFresh(cached.fetched_at))
  /\ CanEnter
  /\ req' = req (+) One(Handler("weather", "fetch", "", city, 0))
  /\ out' = NoOut
  /\ UNCHANGED <<jobs, media, runs, retries, retried>>
  /\ UNCHANGED cacheVars

\* the provider answered: the row is upserted with fetched_at: now and the
\* reading is returned with cached: false
WeatherStore(h, category) ==
  /\ BagIn(h, req) /\ h.op = "weather" /\ h.pc = "fetch"
  /\ weatherCache' = [weatherCache EXCEPT ![normalizeCity(h.city)] =
       [weather_category |-> category, fetched_at |-> now, present |-> TRUE]]
  /\ req' = req (-) One(h)
  /\ out' = Returned("weather", "", h.city, 0, WeatherData(category, FALSE))
  /\ UNCHANGED <<jobs, media, runs, retries, retried, now, widgetCache>>

\* a plausible slip: a failed refetch drops the row it could not refresh
WeatherFetchFailEvicts(h, e) ==
  /\ BagIn(h, req) /\ h.op = "weather" /\ h.pc = "fetch"
  /\ weatherCache' = [weatherCache EXCEPT ![normalizeCity(h.city)] = NoWeather]
  /\ req' = req (-) One(h)
  /\ out' = Returned("weather", "", h.city, 0,
              [NoResp EXCEPT !.code = "throw", !.message = <<e>>])
  /\ UNCHANGED <<jobs, media, runs, retries, retried, now, widgetCache>>

\* the provider answered with an error: it is thrown, the table is not touched
WeatherFetchFail(h, e) ==
  /\ BagIn(h, req) /\ h.op = "weather" /\ h.pc = "fetch"
  /\ req' = req (-) One(h)
  /\ out' = Returned("weather", "", h.city, 0,
              [NoResp EXCEPT !.code = "throw", !.message = <<e>>])
  /\ UNCHANGED <<jobs, media, runs, retries, retried>>
  /\ UNCHANGED cacheVars

NextWeather ==
  \/ \E city \in Cities : WeatherHit(city)
  \/ \E city \in Cities : WeatherMiss(city)
  \/ \E h \in BagToSet(req), category \in Weathers : WeatherStore(h, category)
  \/ \E h \in BagToSet(req), e \in WeatherErrors : WeatherFetchFail(h, e)
  \/ Tick

\* --------------------------------------- widget cache (src/lib/widget-image)
\* src/lib/widget-image.ts:  const CACHE_DURATION_MS = 60 * 60 * 1000
WIDGET_CACHE_DURATION_MS == 3600000

NoWidget == [apng_url |-> Null, expires_at |-> 0, present |-> FALSE]

\* md5 of category, rounded temperature and day/night, cut to 12 characters
generateWeatherHash(weather) == <<"md5", weather>>

WidgetKeys == {<<c, generateWeatherHash(w)>> : c \in NormalizedCities,
                                               w \in Weathers}

widgetPublicUrl(city, weatherHash) ==
  <<"widgets", normalizeCity(city), weatherHash>>

\* a plausible slip: .gte("expires_at", now) instead of .gt
getCachedWidgetImageInclusive(city, weatherHash) ==
  LET row == widgetCache[<<normalizeCity(city), weatherHash>>] IN
  IF row.present /\ row.expires_at >= now THEN row ELSE NoWidget

\* the row of the city and hash whose expires_at is later than now, if any
getCachedWidgetImage(city, weatherHash) ==
  LET row == widgetCache[<<normalizeCity(city), weatherHash>>] IN
  IF row.present /\ row.expires_at > now THEN row ELSE NoWidget

cacheWidgetImage(city, weatherHash, apngUrl) ==
  [widgetCache EXCEPT ![<<normalizeCity(city), weatherHash>>] =
     [apng_url |-> apngUrl, expires_at |-> now + WIDGET_CACHE_DURATION_MS,
      present |-> TRUE]]

WidgetImageResult(type, url, cached, needsGeneration, needsVideoGeneration) ==
  [NoResp EXCEPT !.code = "widget",
     !.body = <<type, url, cached, needsGeneration, needsVideoGeneration>>]

Placeholder == WidgetImageResult("placeholder", Null, FALSE, TRUE, TRUE)

\* what the caller of getOrGenerateWidgetImage passed: the weather, whether
\* a video URL, whether an image URL
WidgetCall(pc, city, weather, videoUrl, imageUrl) ==
  [Handler("widget", pc, "", city, 0) EXCEPT
     !.arg = <<weather, videoUrl, imageUrl>>]

WidgetReturn(city, weather, videoUrl, imageUrl, result) ==
  [Returned("widget", "", city, 0, result) EXCEPT
     !.arg = <<weather, videoUrl, imageUrl>>]

\* getOrGenerateWidgetImage, first await: the cache has a live row
WidgetHit(city, weather, videoUrl, imageUrl) ==
  /\ LET cached == getCachedWidgetImage(city, generateWeatherHash(weather)) IN
       /\ cached.present
       /\ out' = WidgetReturn(city, weather, videoUrl, imageUrl,
                   WidgetImageResult("apng", cached.apng_url, TRUE, FALSE,
                                     FALSE))
  /\ UNCHANGED <<jobs, media, req, runs, retries, retried>>
  /\ UNCHANGED cacheVars

\* a plausible slip: the two fallbacks in the other order, the static image
\* is tried first
WidgetMissImageFirst(city, weather, videoUrl, imageUrl) ==
  /\ LET cached == getCachedWidgetImage(city, generateWeatherHash(weather)) IN
       ~cached.present
  /\ videoUrl \/ imageUrl
  /\ CanEnter
  /\ req' = req (+) One(WidgetCall(IF imageUrl THEN "overlay" ELSE "render",
                                   city, weather, videoUrl, imageUrl))
  /\ out' = NoOut
  /\ UNCHANGED <<jobs, media, runs, retries, retried>>
  /\ UNCHANGED cacheVars

\* first await: no live row, and a video URL or an image URL to work from
WidgetMiss(city, weather, videoUrl, imageUrl) ==
  /\ LET cached == getCachedWidgetImage(city, generateWeatherHash(weather)) IN
       ~cached.present
  /\ videoUrl \/ imageUrl
  /\ CanEnter
  /\ req' = req (+) One(WidgetCall(IF videoUrl THEN "render" ELSE "overlay",
                                   city, weather, videoUrl, imageUrl))
  /\ out' = NoOut
  /\ UNCHANGED <<jobs, media, runs, retries, retried>>
  /\ UNCHANGED cacheVars

\* first await: no live row and nothing to work from: the placeholder
WidgetNothing(city, weather) ==
  /\ LET cached == getCachedWidgetImage(city, generateWeatherHash(weather)) IN
       ~cached.present
  /\ out' = WidgetReturn(city, weather, FALSE, FALSE, Placeholder)
  /\ UNCHANGED <<jobs, media, req, runs, retries, retried>>
  /\ UNCHANGED cacheVars

\* generateWidgetApng succeeded: the APNG is uploaded and cacheWidgetImage
\* stores its URL for an hour
WidgetApngOk(h) ==
  /\ BagIn(h, req) /\ h.op = "widget" /\ h.pc = "render"
  /\ LET weatherHash == generateWeatherHash(h.arg[1])
         apngUrl == widgetPublicUrl(h.city, weatherHash) IN
       /\ widgetCache' = cacheWidgetImage(h.city, weatherHash, apngUrl)
       /\ out' = WidgetReturn(h.city, h.arg[1], h.arg[2], h.arg[3],
                   WidgetImageResult("apng", apngUrl, FALSE, FALSE, FALSE))
  /\ req' = req (-) One(h)
  /\ UNCHANGED <<jobs, media, runs, retries, retried, now, weatherCache>>

\* generateWidgetApng threw: on to the static image, or the placeholder
WidgetApngFail(h) ==
  /\ BagIn(h, req) /\ h.op = "widget" /\ h.pc = "render"
  /\ IF h.arg[3]
     THEN /\ req' = (req (-) One(h)) (+) One([h EXCEPT !.pc = "overlay"])
          /\ out' = NoOut
     ELSE /\ req' = req (-) One(h)
          /\ out' = WidgetReturn(h.city, h.arg[1], h.arg[2], h.arg[3],
                      Placeholder)
  /\ UNCHANGED <<jobs, media, runs, retries, retried>>
  /\ UNCHANGED cacheVars

\* generateStaticImageWithOverlay succeeded
WidgetOverlayOk(h) ==
  /\ BagIn(h, req) /\ h.op = "widget" /\ h.pc = "overlay"
  /\ req' = req (-) One(h)
  /\ out' = WidgetReturn(h.city, h.arg[1], h.arg[2], h.arg[3],
              WidgetImageResult("static", <<"buffer">>, FALSE, FALSE, TRUE))
  /\ UNCHANGED <<jobs, media, runs, retries, retried>>
  /\ UNCHANGED cacheVars

\* generateStaticImageWithOverlay threw: the placeholder
WidgetOverlayFail(h) ==
  /\ BagIn(h, req) /\ h.op = "widget" /\ h.pc = "overlay"
  /\ req' = req (-) One(h)
  /\ out' = WidgetReturn(h.city, h.arg[1], h.arg[2], h.arg[3], Placeholder)
  /\ UNCHANGED <<jobs, media, runs, retries, retried>>
  /\ UNCHANGED cacheVars

NextWidget ==
  \/ \E city \in {"Paris"}, weather \in Weathers,
        videoUrl, imageUrl \in BOOLEAN :
        WidgetHit(city, weather, videoUrl, imageUrl)
  \/ \E city \in {"Paris"}, weather \in Weathers,
        videoUrl, imageUrl \in BOOLEAN :
        WidgetMiss(city, weather, videoUrl, imageUrl)
  \/ \E city \in {"Paris"}, weather \in Weathers :
        WidgetNothing(city, weather)
  \/ \E h \in BagToSet(req) : WidgetApngOk(h)
  \/ \E h \in BagToSet(req) : WidgetApngFail(h)
  \/ \E h \in BagToSet(req) : WidgetOverlayOk(h)
  \/ \E h \in BagToSet(req) : WidgetOverlayFail(h)
  \/ Tick
\* ------------------- GET /cities/{city} (src/app/cities/[slug]/route.ts)
MaxWidgetLoad == 3  \* handlers in flight once a widget request is let in
MaxWidgetJobs == 3  \* job rows ever created where the widget routes run

\* a widget request brings up to two calls of triggerVideoGeneration along
CanServe == InFlight + 3 <= MaxWidgetLoad
CanCreateWidget == Len(jobs) + AtPc("create") < MaxWidgetJobs

\* the handlers in flight that belong to request i: the request's own
\* handler and the calls of triggerVideoGeneration it has made
OfRequest(i) == {h \in BagToSet(req) : Len(h.arg) > 0 /\ h.arg[1] = i}

\* the least request number nothing in flight carries
FreeId ==
  CHOOSE i \in 1..MaxWidgetLoad :
    OfRequest(i) = {} /\ \A k \in 1..(i - 1) : OfRequest(k) # {}

\* arg of a widget handler: <<request, weather, cached video_url, image_url>>
RouteHandler(op, pc, key, city, arg) ==
  [Handler(op, pc, key, city, 0) EXCEPT !.arg = arg]

\* the call triggerVideoGeneration(apiKey, city) made by handler h, up to
\* its first await (the query of getActiveJobForCity is under way)
TriggerCall(h) ==
  RouteHandler("trigger", "lookup", h.key, h.city, <<h.arg[1]>>)

At(h, pc) == [h EXCEPT !.pc = pc]

\* new NextResponse(body, {status, headers}): code is the kind of body
WidgetResponse(status, content, headers) ==
  [NoResp EXCEPT !.status = status, !.code = content, !.body = headers]

RouteReturn(h, resp) ==
  [Returned(h.op, h.key, h.city, 0, resp) EXCEPT !.arg = h.arg]

\* the catch block of both handlers
WidgetErrorResponse(message) ==
  IF IsLocationNotFound(message)
  THEN WidgetResponse(404, "City not found", <<>>)
  ELSE WidgetResponse(500, "Internal error", <<>>)

WidgetRoutes == {"widgetGet", "widgetPng"}

\* step 3 of both handlers, getWeatherForCity(city): a fresh entry of
\* weather_cache is returned, else the provider's answer is stored
RouteWeatherOk(op, key, city, category) ==
  /\ op \in WidgetRoutes /\ CanServe
  /\ LET cached == weatherCache[normalizeCity(city)]
         hit == cached.present /\ isCacheFresh(cached.fetched_at)
         w == IF hit THEN cached.weather_category ELSE category IN
       /\ weatherCache' =
            IF hit THEN weatherCache
            ELSE [weatherCache EXCEPT ![normalizeCity(city)] =
                   [weather_category |-> category, fetched_at |-> now,
                    present |-> TRUE]]
       /\ req' = req (+) One(RouteHandler(op, "cached", key, city,
                                          <<FreeId, w, Null, Null>>))
  /\ out' = NoOut
  /\ UNCHANGED <<jobs, media, runs, retries, retried, now, widgetCache>>

\* getWeatherForCity threw: 404 for an unknown location, else 500
RouteWeatherFail(op, key, city, e) ==
  /\ op \in WidgetRoutes
  /\ LET cached == weatherCache[normalizeCity(city)] IN
       ~(cached.present /\ isCacheFresh(cached.fetched_at))
  /\ out' = Returned(op, key, city, 0, WidgetErrorResponse(e))
  /\ UNCHANGED <<jobs, media, req, runs, retries, retried>>
  /\ UNCHANGED cacheVars

\* ---- the progressive handler (route.ts 20-169)
\* steps 4 to 7 up to the next await: getCachedImage; with a video, fetch
\* it; with an image, triggerVideoGeneration (not awaited) and fetch the
\* image; with nothing, triggerVideoGeneration and make the placeholder
ProgCached(h) ==
  /\ BagIn(h, req) /\ h.op = "widgetGet" /\ h.pc = "cached"
  /\ LET cached == getCachedImage(h.city, h.arg[2])
         h2 == [h EXCEPT !.arg = <<h.arg[1], h.arg[2], cached.video_url,
                                  cached.image_url>>] IN
       req' = (req (-) One(h)) (+)
              (IF cached.video_url # Null THEN One(At(h2, "fetchVideo"))
               ELSE IF cached.image_url # Null
               THEN One(At(h2, "fetchImage")) (+) One(TriggerCall(h))
               ELSE One(At(h2, "placeholder")) (+) One(TriggerCall(h)))
  /\ out' = NoOut
  /\ UNCHANGED <<jobs, media, runs, retries, retried>>
  /\ UNCHANGED cacheVars

\* step 5: the video was fetched and is served
ProgVideoOk(h) ==
  /\ BagIn(h, req) /\ h.op = "widgetGet" /\ h.pc = "fetchVideo"
  /\ req' = req (-) One(h)
  /\ out' = RouteReturn(h, WidgetResponse(200, "video", <<>>))
  /\ UNCHANGED <<jobs, media, runs, retries, retried>>
  /\ UNCHANGED cacheVars

\* step 5: the fetch of the video failed or was not ok: on to step 6
ProgVideoFail(h) ==
  /\ BagIn(h, req) /\ h.op = "widgetGet" /\ h.pc = "fetchVideo"
  /\ req' = (req (-) One(h)) (+) One(TriggerCall(h)) (+)
            (IF h.arg[4] # Null THEN One(At(h, "fetchImage"))
             ELSE One(At(h, "placeholder")))
  /\ out' = NoOut
  /\ UNCHANGED <<jobs, media, runs, retries, retried>>
  /\ UNCHANGED cacheVars

\* step 6: the image was fetched and is served with X-Generating: true
ProgImageOk(h) ==
  /\ BagIn(h, req) /\ h.op = "widgetGet" /\ h.pc = "fetchImage"
  /\ req' = req (-) One(h)
  /\ out' = RouteReturn(h, WidgetResponse(200, "image", <<"X-Generating">>))
  /\ UNCHANGED <<jobs, media, runs, retries, retried>>
  /\ UNCHANGED cacheVars

\* step 6: the fetch of the image failed or was not ok: on to step 7, which
\* calls triggerVideoGeneration again
ProgImageFail(h) ==
  /\ BagIn(h, req) /\ h.op = "widgetGet" /\ h.pc = "fetchImage"
  /\ req' = (req (-) One(h)) (+) One(TriggerCall(h))
            (+) One(At(h, "placeholder"))
  /\ out' = NoOut
  /\ UNCHANGED <<jobs, media, runs, retries, retried>>
  /\ UNCHANGED cacheVars

\* step 7: the placeholder is served with status 200, X-Generating: true
ProgPlaceholder(h) ==
  /\ BagIn(h, req) /\ h.op = "widgetGet" /\ h.pc = "placeholder"
  /\ req' = req (-) One(h)
  /\ out' = RouteReturn(h, WidgetResponse(200, "placeholder",
                                          <<"X-Generating">>))
  /\ UNCHANGED <<jobs, media, runs, retries, retried>>
  /\ UNCHANGED cacheVars

\* ---- triggerVideoGeneration as called by the handlers (widget-job.ts 39-64)
\* getActiveJobForCity(city, "video") finds a job: it is reused
RouteTriggerReuse(h) ==
  /\ BagIn(h, req) /\ h.op = "trigger" /\ h.pc = "lookup"
  /\ LET existingJobId == getActiveJobForCity(h.city, "video") IN
       /\ existingJobId # 0
       /\ out' = Returned("trigger", h.key, h.city, existingJobId,
                   createSuccessResponse(200, existingJobId,
                                         <<"alreadyProcessing", TRUE>>))
  /\ req' = req (-) One(h)
  /\ UNCHANGED <<jobs, media, runs, retries, retried>>
  /\ UNCHANGED cacheVars

\* getActiveJobForCity(city, "video") finds none: on to createJob
RouteTriggerAdmit(h) ==
  /\ BagIn(h, req) /\ h.op = "trigger" /\ h.pc = "lookup"
  /\ getActiveJobForCity(h.city, "video") = 0
  /\ CanCreateWidget
  /\ req' = (req (-) One(h)) (+) One(At(h, "create"))
  /\ out' = NoOut
  /\ UNCHANGED <<jobs, media, runs, retries, retried>>
  /\ UNCHANGED cacheVars

\* ---- the APNG handler (route.ts 189-335)
\* step 4: getCachedImage; the entry stays in scope, its video_url alone
\* is used from here on
ApngCached(h) ==
  /\ BagIn(h, req) /\ h.op = "widgetPng" /\ h.pc = "cached"
  /\ LET cached == getCachedImage(h.city, h.arg[2]) IN
       req' = (req (-) One(h)) (+)
              One([h EXCEPT !.pc = "read",
                            !.arg = <<h.arg[1], h.arg[2], cached.video_url,
                                      cached.image_url>>])
  /\ out' = NoOut
  /\ UNCHANGED <<jobs, media, runs, retries, retried>>
  /\ UNCHANGED cacheVars

\* what step 6 reads: result.apngUrl. The results getOrGenerateWidgetImage
\* builds carry the fields type, url, buffer, cached, needsGeneration and
\* needsVideoGeneration, so the field read is undefined for each of them
apngUrlOf(result) == Null

\* step 5, getOrGenerateWidgetImage(city, weather, videoUrl) with no
\* imageUrl, first await. A live row gives the result {type: "apng",
\* needsGeneration: false}: step 6 finds no apngUrl, step 7 no
\* needsGeneration, and step 8 answers 503. With no live row: the render
\* from the video if there is one, else the placeholder result, whose
\* needsGeneration makes step 7 await triggerVideoGeneration
ApngRead(h) ==
  /\ BagIn(h, req) /\ h.op = "widgetPng" /\ h.pc = "read"
  /\ LET cached == getCachedWidgetImage(h.city,
                                        generateWeatherHash(h.arg[2])) IN
       req' = (req (-) One(h)) (+)
              (IF cached.present
               THEN IF apngUrlOf(cached) # Null THEN One(At(h, "fetchApng"))
                    ELSE One(At(h, "unavailable"))
               ELSE IF h.arg[3] # Null THEN One(At(h, "render"))
               ELSE One(At(h, "triggered")) (+) One(TriggerCall(h)))
  /\ out' = NoOut
  /\ UNCHANGED <<jobs, media, runs, retries, retried>>
  /\ UNCHANGED cacheVars

\* generateWidgetApng succeeded: the row is stored; the result {type:
\* "apng", url, needsGeneration: false} takes step 8 as above
ApngRenderOk(h) ==
  /\ BagIn(h, req) /\ h.op = "widgetPng" /\ h.pc = "render"
  /\ LET weatherHash == generateWeatherHash(h.arg[2]) IN
       widgetCache' = cacheWidgetImage(h.city, weatherHash,
                                       widgetPublicUrl(h.city, weatherHash))
  /\ req' = (req (-) One(h)) (+) One(At(h, "unavailable"))
  /\ out' = NoOut
  /\ UNCHANGED <<jobs, media, runs, retries, retried, now, weatherCache>>

\* generateWidgetApng threw: no imageUrl, so the placeholder result
ApngRenderFail(h) ==
  /\ BagIn(h, req) /\ h.op = "widgetPng" /\ h.pc = "render"
  /\ req' = (req (-) One(h)) (+) One(At(h, "triggered"))
            (+) One(TriggerCall(h))
  /\ out' = NoOut
  /\ UNCHANGED <<jobs, media, runs, retries, retried>>
  /\ UNCHANGED cacheVars

\* step 7: the awaited triggerVideoGeneration is over; the placeholder is
\* served with status 202 and Retry-After: 120
ApngAccepted(h) ==
  /\ BagIn(h, req) /\ h.op = "widgetPng" /\ h.pc = "triggered"
  /\ OfRequest(h.arg[1]) = {h}
  /\ req' = req (-) One(h)
  /\ out' = RouteReturn(h, WidgetResponse(202, "placeholder",
                                          <<"Retry-After">>))
  /\ UNCHANGED <<jobs, media, runs, retries, retried>>
  /\ UNCHANGED cacheVars

\* step 8: the placeholder is served with status 503 and Retry-After: 60
ApngUnavailable(h) ==
  /\ BagIn(h, req) /\ h.op = "widgetPng" /\ h.pc = "unavailable"
  /\ req' = req (-) One(h)
  /\ out' = RouteReturn(h, WidgetResponse(503, "placeholder",
                                          <<"Retry-After">>))
  /\ UNCHANGED <<jobs, media, runs, retries, retried>>
  /\ UNCHANGED cacheVars

\* the runs triggerVideoGeneration starts: cityVideoWorkflow, one answer
\* per provider
VideoWorkflow ==
  \/ \E r \in BagToSet(runs) : WfStartJob(r)
  \/ \E r \in BagToSet(runs) : WfStageWeather(r)
  \/ \E r \in BagToSet(runs) : WfWeatherOk(r, "sunny_day")
  \/ \E r \in BagToSet(runs) : ImageLookup(r)
  \/ \E r \in BagToSet(runs) : ImageGenOk(r)
  \/ \E r \in BagToSet(runs) : WfVideoCached(r)
  \/ \E r \in BagToSet(runs) : WfStageVideo(r)
  \/ \E r \in BagToSet(runs) : WfVideoOk(r)
  \/ \E r \in BagToSet(runs) : WfVideoFail(r, "Service unavailable")
  \/ \E r \in BagToSet(runs) : WfProcMark(r)
  \/ \E r \in BagToSet(runs) : WfProcOk(r)
  \/ \E r \in BagToSet(runs) : WfComplete(r)

NextRoute ==
  \/ \E op \in WidgetRoutes : RouteWeatherOk(op, "k1", "Paris", "sunny_day")
  \/ \E op \in WidgetRoutes :
       RouteWeatherFail(op, "k1", "Paris", "No matching location found.")
  \/ \E h \in BagToSet(req) : ProgCached(h)
  \/ \E h \in BagToSet(req) : ProgVideoOk(h)
  \/ \E h \in BagToSet(req) : ProgVideoFail(h)
  \/ \E h \in BagToSet(req) : ProgImageOk(h)
  \/ \E h \in BagToSet(req) : ProgImageFail(h)
  \/ \E h \in BagToSet(req) : ProgPlaceholder(h)
  \/ \E h \in BagToSet(req) : ApngCached(h)
  \/ \E h \in BagToSet(req) : ApngRead(h)
  \/ \E h \in BagToSet(req) : ApngRenderOk(h)
  \/ \E h \in BagToSet(req) : ApngRenderFail(h)
  \/ \E h \in BagToSet(req) : ApngAccepted(h)
  \/ \E h \in BagToSet(req) : ApngUnavailable(h)
  \/ \E h \in BagToSet(req) : RouteTriggerReuse(h)
  \/ \E h \in BagToSet(req) : RouteTriggerAdmit(h)
  \/ \E h \in BagToSet(req) : TriggerCreate(h)
  \/ \E h \in BagToSet(req), started \in BOOLEAN : TriggerStart(h, started)
  \/ VideoWorkflow


\* ------------------------------------------------------------ specification
Init ==
  /\ jobs = <<>>
  /\ media = [k \in MediaKeys |-> NoEntry]
  /\ req = EmptyBag
  /\ runs = EmptyBag
  /\ retries = 0
  /\ retried = {}
  /\ out = NoOut
  /\ now = 0
  /\ weatherCache = [c \in NormalizedCities |-> NoWeather]
  /\ widgetCache = [k \in WidgetKeys |-> NoWidget]

Handlers == BagToSet(req)
Runs == BagToSet(runs)

\* a step of a pipeline run, the providers answering from the given sets
PipelineOver(W, WE, GE) ==
  \/ \E r \in Runs : WfStartJob(r)
  \/ \E r \in Runs : WfStartJobError(r)
  \/ \E r \in Runs : WfStageWeather(r)
  \/ \E r \in Runs, w \in W : WfWeatherOk(r, w)
  \/ \E r \in Runs, e \in WE : WfWeatherFail(r, e)
  \/ \E r \in Runs : ImageLookup(r)
  \/ \E r \in Runs : ImageGenOk(r)
  \/ \E r \in Runs, e \in GE : ImageGenFail(r, e)
  \/ \E r \in Runs : WfImageComplete(r)
  \/ \E r \in Runs : WfVideoCached(r)
  \/ \E r \in Runs : WfStageVideo(r)
  \/ \E r \in Runs : WfVideoOk(r)
  \/ \E r \in Runs, e \in GE : WfVideoFail(r, e)
  \/ \E r \in Runs : WfProcMark(r)
  \/ \E r \in Runs : WfProcOk(r)
  \/ \E r \in Runs : WfProcFail(r)
  \/ \E r \in Runs : WfComplete(r)
  \/ \E r \in Runs : WfFail(r)
  \/ \E r \in Runs : LgGetJob(r)
  \/ \E r \in Runs : LgStartJob(r)
  \/ \E r \in Runs : LgStartJobError(r)
  \/ \E r \in Runs, w \in W : LgWeatherOk(r, w)
  \/ \E r \in Runs, e \in WE : LgWeatherFail(r, e)
  \/ \E r \in Runs : LgVideoCached(r)
  \/ \E r \in Runs : LgStageVideo(r)
  \/ \E r \in Runs : LgStageVideoAgain(r)
  \/ \E r \in Runs : LgAnimLookup(r)
  \/ \E r \in Runs : LgAnimMark(r)
  \/ \E r \in Runs : LgAnimOk(r)
  \/ \E r \in Runs : LgAnimFail(r)
  \/ \E r \in Runs : LgAnimConvertFail(r)
  \/ \E r \in Runs : LgComplete(r)
  \/ \E r \in Runs : LgFail(r)

Pipeline == PipelineOver(Weathers, WeatherErrors, GenerationErrors)

\* the awaits of a submission or trigger after its admission
Creation ==
  \/ \E h \in Handlers : SubmitVideoCreate(h)
  \/ \E h \in Handlers : SubmitImageCreate(h)
  \/ \E h \in Handlers, started \in BOOLEAN : SubmitImageStart(h, started)
  \/ \E h \in Handlers : TriggerCreate(h)
  \/ \E h \in Handlers, started \in BOOLEAN : TriggerStart(h, started)

\* the operator routes, the retry called once
Operator ==
  \/ \E j \in 1..MaxJobs :
       retries = 0 /\ AtPc("reset") = 0 /\ RetryAdmit(j)
  \/ \E j \in 1..MaxJobs : DeleteAdmit(j)
  \/ \E h \in Handlers, started \in BOOLEAN : RetryReset(h, started)
  \/ \E h \in Handlers : DeleteRow(h)

\* the job ledger under one key and one city: every pipeline, the operator.
\* Requests that are turned away change no table and are left to SpecAdmit.
Next ==
  \/ SubmitAdmit("submitVideo", "k1", "Paris")
  \/ SubmitAdmit("submitImage", "k1", "Paris")
  \/ TriggerAdmit("k1", "Paris")
  \/ Creation
  \/ Operator
  \/ Pipeline

Spec == Init /\ [][Next]_vars

\* ---------------------------------------- admission, dedup and the poll
\* the keys that submit, the keys that poll, the cities asked for
OwnerKeys == {"k1", ADMIN_API_KEY}
Keys == OwnerKeys \cup {"k2"}
AskedCities == {"Paris", "paris", "Rome"}

\* the runs as far as the image stage: a video provider that never answers
\* leaves its job processing
EarlyPipeline ==
  \/ \E r \in Runs : WfStartJob(r)
  \/ \E r \in Runs : WfStageWeather(r)
  \/ \E r \in Runs : WfWeatherOk(r, "sunny_day")
  \/ \E r \in Runs : WfWeatherFail(r, "Service unavailable")
  \/ \E r \in Runs : ImageLookup(r)
  \/ \E r \in Runs : ImageGenOk(r)
  \/ \E r \in Runs : WfImageComplete(r)
  \/ \E r \in Runs : LgGetJob(r)
  \/ \E r \in Runs : LgStartJob(r)
  \/ \E r \in Runs : LgWeatherFail(r, "Service unavailable")

NextAdmit ==
  \/ \E op \in {"submitVideo", "submitImage"}, key \in OwnerKeys,
        city \in {"Paris", "Rome"} : SubmitReject(op, key, city)
  \/ \E op \in {"submitVideo", "submitImage"}, key \in OwnerKeys,
        city \in {"Paris", "Rome"} : SubmitAdmit(op, key, city)
  \/ \E key \in OwnerKeys, city \in AskedCities : TriggerReuse(key, city)
  \/ \E key \in OwnerKeys, city \in AskedCities : TriggerAdmit(key, city)
  \/ Creation
  \/ EarlyPipeline

SpecAdmit == Init /\ [][NextAdmit]_vars

\* the same with the callers of the variant of triggerVideoGeneration that
\* looks up nothing
NextTrigger ==
  \/ NextAdmit
  \/ \E key \in OwnerKeys : TriggerPlainCreate(key, "Rome")
  \/ \E h \in Handlers, started \in BOOLEAN : TriggerPlainStart(h, started)

SpecTrigger == Init /\ [][NextTrigger]_vars

\* the ledger of Spec with one answer per provider, and the poll
NextPoll ==
  \/ SubmitAdmit("submitVideo", "k1", "Paris")
  \/ SubmitAdmit("submitImage", "k1", "Paris")
  \/ TriggerAdmit("k1", "Paris")
  \/ Creation
  \/ Operator
  \/ PipelineOver({"rainy_night"}, {"No matching location found."},
                  {"blocked by content policy"})
  \/ \E key \in Keys, j \in 1..MaxJobs : Poll(key, j)

SpecPoll == Init /\ [][NextPoll]_vars

\* the weather cache, with calls that overlap and a clock
SpecWeather == Init /\ [][NextWeather]_vars

\* the widget cache and getOrGenerateWidgetImage, with a clock
SpecWidget == Init /\ [][NextWidget]_vars

\* the widget routes, the calls of triggerVideoGeneration they make and the
\* workflows those start
SpecRoute == Init /\ [][NextRoute]_vars

\* ------------------------------------------- video jobs, providers that answer
\* a step of processVideoJob when every provider call succeeds
LivePipeline ==
  \/ \E r \in Runs : LgGetJob(r)
  \/ \E r \in Runs : LgStartJob(r)
  \/ \E r \in Runs : LgWeatherOk(r, "sunny_day")
  \/ \E r \in Runs : ImageLookup(r)
  \/ \E r \in Runs : ImageGenOk(r)
  \/ \E r \in Runs : LgVideoCached(r)
  \/ \E r \in Runs : LgStageVideo(r)
  \/ \E r \in Runs : LgStageVideoAgain(r)
  \/ \E r \in Runs : LgAnimLookup(r)
  \/ \E r \in Runs : LgAnimMark(r)
  \/ \E r \in Runs : LgAnimOk(r)
  \/ \E r \in Runs : LgComplete(r)
  \/ \E r \in Runs : LgFail(r)

LiveCreate == \E h \in Handlers : SubmitVideoCreate(h)

\* POST /api/v1/city-video for one city, from a standard key and the admin key
NextLive ==
  \/ \E key \in OwnerKeys : SubmitReject("submitVideo", key, "Paris")
  \/ \E key \in OwnerKeys : SubmitAdmit("submitVideo", key, "Paris")
  \/ LiveCreate
  \/ LivePipeline

\* an await that can resolve does resolve: the handler reaches its return and
\* the background promise of processVideoJob runs to its end
SpecLive ==
  Init /\ [][NextLive]_vars /\ WF_vars(LiveCreate) /\ WF_vars(LivePipeline)

\* ------------------------------------------------------ privileged callers
\* a cm_live_ key whose row in api_keys has is_admin = true
DB_ADMIN_KEY == "cm_live_adm"

\* src/lib/auth.ts validateApiKeyAsync, for the keys of the model (all valid):
\* the configured admin key is an admin, a database key is what its row says,
\* "k1" and "k2" stand for database keys with is_admin = false
validateApiKeyAsync(providedKey) ==
  IF providedKey = ADMIN_API_KEY
  THEN [valid |-> TRUE, apiKey |-> providedKey, isAdmin |-> TRUE]
  ELSE [valid |-> TRUE, apiKey |-> providedKey,
        isAdmin |-> (providedKey = DB_ADMIN_KEY)]

PrivilegedKeys ==
  {k \in {"k1", "k2", ADMIN_API_KEY, DB_ADMIN_KEY} :
     validateApiKeyAsync(k).isAdmin}

\* both submit routes, called with privileged keys only
NextPrivileged ==
  \/ \E op \in {"submitVideo", "submitImage"}, key \in PrivilegedKeys :
       SubmitReject(op, key, "Paris")
  \/ \E op \in {"submitVideo", "submitImage"}, key \in PrivilegedKeys :
       SubmitAdmit(op, key, "Paris")
  \/ \E h \in Handlers : SubmitVideoCreate(h)
  \/ \E h \in Handlers : SubmitImageCreate(h)
  \/ \E h \in Handlers, started \in BOOLEAN : SubmitImageStart(h, started)
  \/ EarlyPipeline

SpecPrivileged == Init /\ [][NextPrivileged]_vars

\* --------------------------------------------- the operator routes, at will
\* the workflows with one answer per provider
WorkflowSteps ==
  \/ \E r \in Runs : WfStartJob(r)
  \/ \E r \in Runs : WfStageWeather(r)
  \/ \E r \in Runs : WfWeatherOk(r, "sunny_day")
  \/ \E r \in Runs : WfWeatherFail(r, "Service unavailable")
  \/ \E r \in Runs : ImageLookup(r)
  \/ \E r \in Runs : ImageGenOk(r)
  \/ \E r \in Runs : WfImageComplete(r)
  \/ \E r \in Runs : WfVideoCached(r)
  \/ \E r \in Runs : WfStageVideo(r)
  \/ \E r \in Runs : WfVideoOk(r)
  \/ \E r \in Runs : WfProcMark(r)
  \/ \E r \in Runs : WfProcOk(r)
  \/ \E r \in Runs : WfComplete(r)

\* image jobs of one key, and the operator retrying and deleting any job any
\* number of times, calls that overlap included
NextRetry ==
  \/ SubmitAdmit("submitImage", "k1", "Paris")
  \/ \E h \in Handlers : SubmitImageCreate(h)
  \/ \E h \in Handlers, started \in BOOLEAN : SubmitImageStart(h, started)
  \/ \E j \in 1..MaxJobs : RetryReject(j)
  \/ \E j \in 1..MaxJobs : RetryAdmit(j)
  \/ \E h \in Handlers, started \in BOOLEAN : RetryReset(h, started)
  \/ \E j \in 1..MaxJobs : DeleteReject(j)
  \/ \E j \in 1..MaxJobs : DeleteAdmit(j)
  \/ \E h \in Handlers : DeleteRow(h)
  \/ WorkflowSteps

SpecRetry == Init /\ [][NextRetry]_vars

\* ------------------------------------------- the city lookup and its names
\* city names as callers write them: one blank, two blanks, an underscore
WrittenCities == {"New York", "New  York", "new_york", "Rome"}

\* triggerVideoGeneration under these names; a job leaves the active set when
\* its weather stage fails
NextCity ==
  \/ \E city \in WrittenCities : TriggerReuse("k1", city)
  \/ \E city \in WrittenCities : TriggerAdmit("k1", city)
  \/ \E h \in Handlers : TriggerCreate(h)
  \/ \E h \in Handlers, started \in BOOLEAN : TriggerStart(h, started)
  \/ \E r \in Runs : WfStartJob(r)
  \/ \E r \in Runs : WfStageWeather(r)
  \/ \E r \in Runs : WfWeatherFail(r, "Service unavailable")

SpecCity == Init /\ [][NextCity]_vars

\* ------------------------------------ admission with a failing datastore
\* the submissions and the triggers of SpecAdmit, each lookup may fail
NextFailOpen ==
  \/ \E op \in {"submitVideo", "submitImage"} : SubmitReject(op, "k1", "Paris")
  \/ \E op \in {"submitVideo", "submitImage"} : SubmitAdmit(op, "k1", "Paris")
  \/ \E op \in {"submitVideo", "submitImage"} :
       SubmitLookupError(op, "k1", "Paris")
  \/ TriggerReuse("k1", "Paris")
  \/ TriggerAdmit("k1", "Paris")
  \/ TriggerLookupError("k1", "Paris")
  \/ Creation
  \/ EarlyPipeline

SpecFailOpen == Init /\ [][NextFailOpen]_vars

\* ----------------------------------------- triggers around a job left pending
\* triggerVideoGeneration for one city under two spellings, its lookup
\* answering or failing, its start succeeding or not, next to the direct
\* submission of a video job for the same city by another key
NextStranded ==
  \/ \E city \in {"New York", "New  York"} : TriggerReuse("k1", city)
  \/ \E city \in {"New York", "New  York"} : TriggerAdmit("k1", city)
  \/ TriggerLookupError("k1", "New York")
  \/ \E h \in Handlers : TriggerCreate(h)
  \/ \E h \in Handlers, started \in BOOLEAN : TriggerStart(h, started)
  \/ SubmitAdmit("submitVideo", "k2", "New York")
  \/ \E h \in Handlers : SubmitVideoCreate(h)
  \/ \E r \in Runs : WfStartJob(r)
  \/ \E r \in Runs : WfStageWeather(r)
  \/ \E r \in Runs : WfWeatherFail(r, "Service unavailable")
  \/ \E r \in Runs : LgGetJob(r)
  \/ \E r \in Runs : LgStartJob(r)
  \/ \E r \in Runs : LgWeatherFail(r, "Service unavailable")

SpecStranded == Init /\ [][NextStranded]_vars

\* ------------------------------------- widget triggers and the rate limit
\* two callers whose widget requests trigger the generation of a video for
\* two cities, one of them also submitting image jobs: every video job of
\* this specification was created by triggerVideoGeneration
NextOwner ==
  \/ \E key \in {"k1", "k2"}, city \in {"Paris", "Rome"} :
       TriggerReuse(key, city)
  \/ \E key \in {"k1", "k2"}, city \in {"Paris", "Rome"} :
       TriggerAdmit(key, city)
  \/ \E h \in Handlers : TriggerCreate(h)
  \/ \E h \in Handlers, started \in BOOLEAN : TriggerStart(h, started)
  \/ SubmitReject("submitImage", "k1", "Paris")
  \/ SubmitAdmit("submitImage", "k1", "Paris")
  \/ \E h \in Handlers : SubmitImageCreate(h)
  \/ \E h \in Handlers, started \in BOOLEAN : SubmitImageStart(h, started)
  \/ \E r \in Runs : WfStartJob(r)
  \/ \E r \in Runs : WfStageWeather(r)
  \/ \E r \in Runs : WfWeatherFail(r, "Service unavailable")

SpecOwner == Init /\ [][NextOwner]_vars


\* ------------------------------------------------------------------ claims
Terminal(row) == row.status \in {"completed", "failed"}

StandardKeys == {"k1", "k2"}

OwnedActive(k) ==
  {j \in JobIds : jobs[j].api_key_hash = <<"sha256", k>> /\ IsActive(jobs[j])}

ActiveVideoJobs(c) ==
  {j \in JobIds : /\ jobs[j].job_type = "video" /\ IsActive(jobs[j])
                  /\ toLowerCase(jobs[j].city) = toLowerCase(c)}

\* the row an operator retry leaves of the row it resets
ResetOf(row) ==
  [row EXCEPT !.status = "pending", !.stage = "null", !.error_message = Null]

C2_OneActiveJobPerKey ==
  \A k \in StandardKeys : Cardinality(OwnedActive(k)) <= 1

\* C3: a submission of a standard key is never admitted to createJob while
\* that key owns a pending or processing job, and every RATE_LIMITED answer
\* carries the id of the key's most recent such job, with status 429, and
\* comes from a step that inserts no row, starts no run and leaves no
\* handler behind.
C3_RateLimited ==
  [][/\ \A op \in {"submitVideo", "submitImage"}, k \in StandardKeys,
          c \in Cities :
          OwnedActive(k) # {}
          => req' # req (+) One(Handler(op, "create", k, c, 0))
     /\ out'.resp.code = "RATE_LIMITED"
        => /\ out'.op \in {"submitVideo", "submitImage"}
           /\ out'.key \in StandardKeys
           /\ OwnedActive(out'.key) # {}
           /\ out'.resp.body = <<"active_job_id", MaxOf(OwnedActive(out'.key))>>
           /\ out'.resp.status = 429
           /\ jobs' = jobs /\ runs' = runs /\ req' = req]_vars

C3_Witness ==
  /\ out.resp.code = "RATE_LIMITED"
  /\ out.resp.body = <<"active_job_id", 2>>
  /\ jobs[2].status = "processing"
  /\ jobs[1].status = "failed"

\* C4 as stated: of two triggerVideoGeneration calls (the variant with the
\* lookup) for one city that are under way together, at most one has
\* created a job.
C4_OneJobPerOverlap ==
  \A a, b \in BagToSet(req) :
    /\ a.op = "trigger" /\ b.op = "trigger"
    /\ a.pc = "start" /\ b.pc = "start"
    /\ toLowerCase(a.city) = toLowerCase(b.city)
    => a.job = b.job

\* C4, what holds: while a call of triggerVideoGeneration (the variant with
\* the lookup) for a city has inserted its job and not yet returned, and
\* that job is still pending or processing, a second call for the same
\* city, whose lookup therefore runs after that insert, is not admitted to
\* createJob; it returns at once, alreadyProcessing = true, the id of the
\* city's most recent active video job, and inserts no row and starts no
\* run. (Two calls whose lookups both run before either insert each create
\* a job: C4_OneJobPerOverlap.)
C4_LookupAfterInsertReuses ==
  [][\A h \in BagToSet(req) :
       h.op = "trigger" /\ h.pc = "start" /\ h.job \in ActiveVideoJobs(h.city)
       => \A k \in {"k1", "k2", "adm"}, c \in Cities :
            toLowerCase(c) = toLowerCase(h.city)
            => /\ req' # req (+) One(Handler("trigger", "create", k, c, 0))
               /\ out'.op = "trigger" /\ out'.city = c /\ req' = req
                  => /\ out'.job = MaxOf(ActiveVideoJobs(c))
                     /\ out'.resp.body = <<"alreadyProcessing", TRUE>>
                     /\ jobs' = jobs /\ runs' = runs]_vars

C4_Witness ==
  /\ out.op = "trigger" /\ out.resp.body = <<"alreadyProcessing", TRUE>>
  /\ \E h \in BagToSet(req) :
       /\ h.op = "trigger" /\ h.pc = "start" /\ h.job = out.job
       /\ h.city # out.city /\ toLowerCase(h.city) = toLowerCase(out.city)
       /\ jobs[h.job].status = "pending"

\* C5 as stated: a call of triggerVideoGeneration, of either variant, that
\* begins while the city has a pending or processing video job goes on to
\* create no job row: the variant with the lookup is not admitted to
\* createJob, the variant without it inserts nothing.
C5_ActiveJobIsReused ==
  [][\A c \in Cities, k \in {"k1", "k2", "adm"} :
       ActiveVideoJobs(c) # {}
       => /\ req' # req (+) One(Handler("trigger", "create", k, c, 0))
          /\ req' # req (+) One(Handler("triggerPlain", "start", k, c,
                                        Len(jobs) + 1))]_vars

\* C6: what a key other than the admin key is answered when it polls a job
\* of another key is, field for field, what it is answered for an id
\* under which there is no job, whatever the job's status and contents.
C6_ForeignJobLooksAbsent ==
  /\ out.op = "poll" /\ out.key # ADMIN_API_KEY
  /\ out.job \in JobIds /\ jobs[out.job].status # "absent"
  /\ jobs[out.job].api_key_hash # <<"sha256", out.key>>
  => /\ out.resp = pollResponse(out.key, out.job, NoJob)
     /\ out.resp.code = "JOB_NOT_FOUND" /\ out.resp.status = 404

C6_Witness ==
  /\ out.op = "poll" /\ out.key = "k2"
  /\ out.job \in JobIds /\ jobs[out.job].status = "completed"
  /\ \E j \in JobIds : jobs[j].status = "failed"

\* C9: a call of getWeatherForCity that finds the city's entry fetched less
\* than an hour ago is not sent on to the provider, and what is returned
\* with cached = true is the category of such an entry, the table left as
\* it was; every other call goes to the provider, and what it returns with
\* cached = false is what it has just stored under the normalized city with
\* the time of the call's return as fetched_at, so that the entry is fresh
\* for a read that follows at once.
C9_WeatherCache ==
  [][/\ \A c \in Cities :
          LET e == weatherCache[toLowerCase(c)] IN
          /\ e.present /\ now - e.fetched_at < CACHE_DURATION_MS
             => req' # req (+) One(Handler("weather", "fetch", "", c, 0))
          /\ ~(e.present /\ now - e.fetched_at < CACHE_DURATION_MS)
             => \A w \in Weathers :
                  out' # Returned("weather", "", c, 0, WeatherData(w, TRUE))
     /\ out'.resp.code = "weather" /\ out'.resp.body[2] = TRUE
        => /\ out'.resp.body[1] =
                weatherCache[toLowerCase(out'.city)].weather_category
           /\ weatherCache' = weatherCache /\ req' = req
     /\ out'.resp.code = "weather" /\ out'.resp.body[2] = FALSE
        => /\ weatherCache'[toLowerCase(out'.city)] =
                [weather_category |-> out'.resp.body[1], fetched_at |-> now',
                 present |-> TRUE]
           /\ req = req' (+) One(Handler("weather", "fetch", "", out'.city, 0))
    ]_vars

C9_Witness ==
  /\ out.resp.code = "weather" /\ out.resp.body[2] = TRUE
  /\ out.city = "paris"
  /\ weatherCache["paris"].fetched_at = CACHE_DURATION_MS
  /\ now = CACHE_DURATION_MS + HalfHour

\* C10: what getOrGenerateWidgetImage returns as the cached APNG is the URL
\* of a row whose expires_at is later than now; a call that finds no such
\* row (none, or one that has expired) leaves the table as it is and goes on
\* to the render from the video if it was given a video URL, else to the
\* static image if it was given an image URL, else returns the placeholder;
\* a failed render goes on to the static image or the placeholder, a failed
\* static image to the placeholder.
C10_ExpiredNeverServed ==
  [][/\ out'.resp.code = "widget" /\ out'.resp.body[3] = TRUE
        => LET row == widgetCache[<<toLowerCase(out'.city),
                                    <<"md5", out'.arg[1]>>>>] IN
           /\ row.present /\ row.expires_at > now
           /\ out'.resp.body[1] = "apng" /\ out'.resp.body[2] = row.apng_url
     /\ \A h \in BagToSet(req') :
          h.op = "widget" /\ req' = req (+) One(h)
          => LET row == widgetCache[<<toLowerCase(h.city),
                                      <<"md5", h.arg[1]>>>>] IN
             /\ ~(row.present /\ row.expires_at > now)
             /\ h.pc = IF h.arg[2] THEN "render" ELSE "overlay"
             /\ h.arg[2] \/ h.arg[3]
             /\ widgetCache' = widgetCache
     /\ out'.resp.code = "widget" /\ out'.resp.body[1] = "placeholder"
          /\ req' = req
        => LET row == widgetCache[<<toLowerCase(out'.city),
                                    <<"md5", out'.arg[1]>>>>] IN
           /\ ~(row.present /\ row.expires_at > now)
           /\ ~out'.arg[2] /\ ~out'.arg[3]
           /\ widgetCache' = widgetCache
     /\ \A h \in BagToSet(req) :
          h.op = "widget" /\ CopiesIn(h, req') < CopiesIn(h, req)
          => IF h.pc = "render"
             THEN \/ /\ out'.resp.code = "widget"
                     /\ out'.resp.body[1] = "apng" /\ out'.resp.body[3] = FALSE
                     /\ req' = req (-) One(h)
                  \/ /\ h.arg[3] /\ out' = NoOut
                     /\ req' = (req (-) One(h))
                                (+) One([h EXCEPT !.pc = "overlay"])
                  \/ /\ ~h.arg[3] /\ out'.resp.code = "widget"
                     /\ out'.resp.body[1] = "placeholder"
                     /\ req' = req (-) One(h)
             ELSE /\ out'.resp.code = "widget"
                  /\ out'.resp.body[1] \in {"static", "placeholder"}
                  /\ req' = req (-) One(h)
    ]_vars

C10_Witness ==
  /\ out.resp.code = "widget" /\ out.resp.body[1] = "static"
  /\ out.arg[2] = TRUE
  /\ LET row == widgetCache[<<"paris", <<"md5", out.arg[1]>>>>] IN
       row.present /\ row.expires_at = now

\* a response of a widget handler that had read the media entry
WidgetAnswered ==
  out.op \in WidgetRoutes /\ Len(out.arg) = 4

\* C11 as stated: a widget request that finds an image and no video for the
\* city and weather is answered with status 200, the image and the
\* generation-in-progress signal (granted that when the fetch of the stored
\* image fails there is no image to answer with, and the placeholder is).
C11_ImageOnlyServesImage ==
  WidgetAnswered /\ out.arg[3] = Null /\ out.arg[4] # Null
  => /\ out.resp.status = 200
     /\ out.resp.code \in {"image", "placeholder"}
     /\ out.resp.body = <<"X-Generating">>

\* C12 as stated: the calls of triggerVideoGeneration that one widget
\* request makes create at most one job between them.
C12_OneJobPerRequest ==
  \A i \in 1..MaxWidgetLoad :
    \A a, b \in OfRequest(i) :
      /\ a.op = "trigger" /\ b.op = "trigger"
      /\ a.job # 0 /\ b.job # 0
      => a.job = b.job

\* C18 as stated: a widget request that finds neither a video nor an image
\* for the city and weather (and so no widget artifact either) is answered
\* with status 202, the placeholder and a Retry-After header.
C18_NothingCachedIsAccepted ==
  WidgetAnswered /\ out.arg[3] = Null /\ out.arg[4] = Null
  => /\ out.resp.status = 202
     /\ out.resp.code = "placeholder"
     /\ out.resp.body = <<"Retry-After">>

\* the runs of the image workflow on job j
ImageRunsOf(j) == {r \in BagToSet(runs) : r.kind = "image" /\ r.job = j}

StatusStage(row) == <<row.status, row.stage>>

\* C13: the status and stage of an image job (that no retry has reset)
\* change only along pending, processing/fetching_weather,
\* processing/generating_image, completed, or to failed; a run that finds
\* no media entry for its city and weather goes to the image provider, and
\* when the provider succeeds the job is completed from
\* processing/generating_image with the URL of the generated image and
\* cached = false.
C13_ImageJobPath ==
  [][\A j \in JobIds :
       jobs[j].job_type = "image" /\ j \notin retried'
       => /\ StatusStage(jobs'[j]) # StatusStage(jobs[j])
             /\ jobs'[j].status \notin {"failed", "absent"}
             => <<StatusStage(jobs[j]), StatusStage(jobs'[j])>> \in
                  {<<(<<"pending", "null">>),
                     (<<"processing", "fetching_weather">>)>>,
                   <<(<<"processing", "fetching_weather">>),
                     (<<"processing", "generating_image">>)>>,
                   <<(<<"processing", "generating_image">>),
                     (<<"completed", "null">>)>>}
          /\ \A r \in ImageRunsOf(j) :
               /\ r.pc = "image" /\ ~BagIn(r, runs')
                  /\ getCachedImage(r.city, r.weather).image_url = Null
                  => runs' = Move(r, [r EXCEPT !.pc = "imageGen"])
               /\ r.pc = "imageGen" /\ ~BagIn(r, runs')
                  /\ jobs'[j].status # "failed"
                  => /\ BagIn([r EXCEPT !.pc = "afterImage",
                                        !.image = <<"png", toLowerCase(r.city),
                                                    r.weather>>,
                                        !.video = Null, !.cached = FALSE,
                                        !.calls = {"image"}],
                               runs')
                     /\ media'[<<toLowerCase(r.city), r.weather>>].image_url
                          = <<"png", toLowerCase(r.city), r.weather>>
               /\ r.pc = "afterImage" /\ ~BagIn(r, runs')
                  => /\ jobs'[j].status = "completed"
                     /\ jobs'[j].image_url = r.image /\ r.image # Null
                     /\ jobs'[j].cached = r.cached
                     /\ jobs'[j].weather_data = r.weather]_vars

C13_Witness ==
  \E j \in JobIds :
    /\ jobs[j].job_type = "image" /\ j \notin retried
    /\ jobs[j].status = "completed" /\ jobs[j].cached = FALSE
    /\ jobs[j].image_url = <<"png", "paris", jobs[j].weather_data>>

\* C14: a run that finds a media entry for its city and weather takes the
\* entry's image URL with cached = true and does not go to the image
\* provider; so an image job completed with cached = true has the image
\* URL of every image job completed for the same city and weather, the
\* one that generated the image included.
C14_SecondJobIsCached ==
  [][/\ \A r \in BagToSet(runs) :
          LET entry == media[<<toLowerCase(r.city), r.weather>>] IN
          r.pc = "image" /\ ~BagIn(r, runs') /\ entry.image_url # Null
          => /\ runs' = Move(r, [r EXCEPT !.pc = "afterImage",
                                          !.image = entry.image_url,
                                          !.video = entry.video_url,
                                          !.cached = TRUE])
             /\ media' = media
     /\ \A i, j \in JobIds :
          /\ jobs'[i].job_type = "image" /\ jobs'[j].job_type = "image"
          /\ jobs'[i].status = "completed" /\ jobs'[j].status = "completed"
          /\ toLowerCase(jobs'[i].city) = toLowerCase(jobs'[j].city)
          /\ jobs'[i].weather_data = jobs'[j].weather_data
          => jobs'[i].image_url = jobs'[j].image_url]_vars

C14_Witness ==
  \E i, j \in JobIds :
    /\ jobs[i].job_type = "image" /\ jobs[j].job_type = "image"
    /\ jobs[i].status = "completed" /\ jobs[i].cached = FALSE
    /\ jobs[j].status = "completed" /\ jobs[j].cached = TRUE
    /\ jobs[i].weather_data = jobs[j].weather_data
    /\ jobs[i].image_url = jobs[j].image_url /\ jobs[j].image_url # Null
    /\ i < j

\* ------------------------------------------------------------------------ C15
VideoJobsOf(key) ==
  {j \in 1..Len(jobs) : /\ jobs[j].status # "absent"
                        /\ jobs[j].api_key_hash = hashApiKey(key)
                        /\ jobs[j].job_type = "video"}

\* C15: a second video submission of a standard caller that arrives while the
\* caller's first job is pending or processing is answered RATE_LIMITED with
\* that job's id, and, every provider call succeeding, every video job of a
\* standard caller eventually has status completed
C15_RateLimitedThenCompleted ==
  /\ [][\A j \in VideoJobsOf("k1") :
          /\ OwnedActive("k1") = {j}
          /\ out'.op = "submitVideo" /\ out'.key = "k1" /\ req' = req
          => /\ out'.resp.code = "RATE_LIMITED"
             /\ out'.resp.body = <<"active_job_id", j>>
             /\ jobs' = jobs /\ runs' = runs]_vars
  /\ \A j \in 1..MaxJobs :
       (j \in VideoJobsOf("k1")) ~> (getJob(j).status = "completed")

\* ------------------------------------------------------------------------ C16
Names(message, city) == \E i \in DOMAIN message : message[i] = city

\* C16: when the weather provider reports that the location does not exist,
\* the job ends failed, the error is a FatalError, the error message names the
\* location, and the run makes no image or video call for the job
C16_InvalidLocationIsFatal ==
  [][\A r \in Runs :
       \/ WfWeatherFail(r, "No matching location found.")
       \/ LgWeatherFail(r, "No matching location found.")
       => /\ Exists(r.job) => /\ jobs'[r.job].status = "failed"
                              /\ Names(jobs'[r.job].error_message, r.city)
          /\ weatherFailureClass(r.kind, "No matching location found.")
               = "FatalError"
          /\ CopiesIn(r, runs') < CopiesIn(r, runs)
          /\ media' = media]_vars

\* ------------------------------------------------------------------------ C17
Stages ==
  {"fetching_weather", "generating_image", "generating_video",
   "processing_video"}

\* the step in which the work of a stage fails in the run r
FailureOf(r, stage) ==
  CASE stage = "fetching_weather" ->
         \E e \in WeatherErrors : WfWeatherFail(r, e) \/ LgWeatherFail(r, e)
    [] stage = "generating_image" ->
         \E e \in GenerationErrors : ImageGenFail(r, e)
    [] stage = "generating_video" ->
         (\E e \in GenerationErrors : WfVideoFail(r, e)) \/ LgAnimFail(r)
    [] stage = "processing_video" ->
         WfProcFail(r) \/ LgAnimConvertFail(r)

\* C17: the stage stored on a job that ends failed, and reported in the error
\* payload of the poll, is the stage whose work failed, one of the four
C17_FailedStageIsExecutingStage ==
  [][/\ \A r \in Runs, stage \in Stages :
          FailureOf(r, stage) /\ Exists(r.job)
          => jobs[r.job].stage = stage /\ jobs'[r.job].stage = stage
     /\ \A j \in JobIds :
          jobs[j].status # "failed" /\ jobs'[j].status = "failed"
          => jobs'[j].stage \in Stages /\ jobs'[j].stage = jobs[j].stage
     /\ out'.op = "poll" /\ out'.resp.code = "VIDEO_GENERATION_FAILED"
          => /\ out'.resp.body = <<"stage", jobs[out'.job].stage>>
             /\ jobs[out'.job].stage \in Stages]_vars

\* ------------------------------------------------------------------------ C19
JobTypeOf(op) == IF op = "submitImage" THEN "image" ELSE "video"

\* C19: the limit of a standard key is counted per endpoint type: a submission
\* is answered RATE_LIMITED only when the key has a pending or processing job
\* of the type of the endpoint it was sent to
C19_LimitPerEndpointType ==
  [][\A op \in {"submitVideo", "submitImage"} :
       out'.op = op /\ out'.key = "k1" /\ out'.resp.code = "RATE_LIMITED"
       => \E j \in OwnedActive("k1") : jobs[j].job_type = JobTypeOf(op)]_vars

\* ------------------------------------------------------------------------ C20
\* C20: a caller authenticated as privileged, by the configured admin key or
\* by a database key with is_admin = true, is never answered RATE_LIMITED
C20_PrivilegedNeverRateLimited ==
  [][\A key \in PrivilegedKeys :
       out'.key = key /\ out'.op \in {"submitVideo", "submitImage"}
       => out'.resp.code # "RATE_LIMITED"]_vars

\* ------------------------------------------------------------------------ C21
\* the run r ends in this step and leaves its job completed
Completes(r) ==
  /\ r.job \in JobIds /\ CopiesIn(r, runs') < CopiesIn(r, runs)
  /\ jobs[r.job].status # "completed" /\ jobs'[r.job].status = "completed"

\* C21: a run that completes its job with cached = true has called neither
\* the image nor the video provider, and the artifact it stores is a URL of
\* the media cache entry of its city and weather
C21_CachedMeansNoGeneration ==
  [][\A r \in Runs :
       Completes(r) /\ jobs'[r.job].cached
       => /\ r.calls = {}
          /\ jobs'[r.job].video_url # Null
          /\ LET entry == getCachedImage(r.city, r.weather) IN
               jobs'[r.job].video_url =
                 IF r.kind = "image" THEN entry.image_url
                 ELSE entry.video_url]_vars

C21_Witness ==
  \E j \in JobIds :
    /\ jobs[j].job_type = "video" /\ jobs[j].status = "completed"
    /\ jobs[j].cached
    /\ jobs[j].video_url = getCachedImage(jobs[j].city,
                                          jobs[j].weather_data).video_url

\* ------------------------------------------------------------------------ C22
Rank(stage) ==
  CASE stage = "null" -> 0
    [] stage = "fetching_weather" -> 1
    [] stage = "generating_image" -> 2
    [] stage = "generating_video" -> 3
    [] stage = "processing_video" -> 4

\* C22: the stage values a pipeline run writes to its job (a job that no
\* retry has reset has one run) come in the order fetching_weather,
\* generating_image, generating_video, processing_video: every change of the
\* stage goes to the next stage, none is skipped and none comes back; the
\* stage is cleared only by the completion
C22_StagesInOrder ==
  [][\A j \in JobIds :
       /\ j \notin retried' /\ jobs'[j].status # "absent"
       /\ jobs'[j].stage # jobs[j].stage
       => \/ Rank(jobs'[j].stage) = Rank(jobs[j].stage) + 1
          \/ jobs'[j].stage = "null" /\ jobs'[j].status = "completed"]_vars

C22_Witness ==
  \E j \in JobIds :
    /\ j \notin retried /\ jobs[j].status = "processing"
    /\ jobs[j].stage = "processing_video"

\* ------------------------------------------------------------------------ C23
\* C23: a job of type image never has the stage generating_video or
\* processing_video, and no run on it calls the video provider
C23_ImageJobNoVideo ==
  \A j \in JobIds :
    jobs[j].job_type = "image"
    => /\ jobs[j].stage \notin {"generating_video", "processing_video"}
       /\ \A r \in Runs : r.job = j => "video" \notin r.calls

\* ------------------------------------------------------------------------ C24
\* C24: a run on a video job that has found a cached video for its city and
\* weather completes the job in its next step with that video URL and
\* cached = true, having called no generation provider and without a stage
\* generating_video or processing_video
C24_CachedVideoShortCircuits ==
  [][\A r \in Runs :
       /\ r.kind \in {"video", "legacy"} /\ r.pc = "afterImage"
       /\ r.video # Null /\ Exists(r.job)
       /\ CopiesIn(r, runs') < CopiesIn(r, runs)
       => /\ jobs[r.job].stage = "generating_image"
          /\ jobs'[r.job].status = "completed"
          /\ jobs'[r.job].video_url = r.video
          /\ jobs'[r.job].cached
          /\ r.calls = {}]_vars

\* ------------------------------------------------------------------------ C25
\* C25: a run whose image stage found a media cache entry completes its job
\* with the entry's image URL and cached = true, in the image workflow and in
\* the video pipelines alike
C25_CachedImageMeansCached ==
  [][\A r \in Runs :
       Completes(r) /\ r.cached
       => /\ jobs'[r.job].image_url
               = getCachedImage(r.city, r.weather).image_url
          /\ jobs'[r.job].cached]_vars

\* C25 as the code has it: the entry's image URL is used and the image
\* provider is not called; cached = true is recorded by cityImageWorkflow, and
\* by cityVideoWorkflow only when the entry held a video too and none was
\* generated; a run that generated its video records cached = false
C25_CachedImageUsed ==
  [][\A r \in Runs :
       Completes(r) /\ r.cached
       => /\ jobs'[r.job].image_url
               = getCachedImage(r.city, r.weather).image_url
          /\ jobs'[r.job].image_url # Null
          /\ "image" \notin r.calls
          /\ r.kind = "image" => jobs'[r.job].cached
          /\ r.kind = "video"
               => jobs'[r.job].cached = ("video" \notin r.calls)
          /\ "video" \in r.calls => ~jobs'[r.job].cached]_vars

C25_Witness ==
  \E r \in Runs :
    /\ r.kind = "video" /\ r.pc = "complete" /\ r.cached
    /\ r.calls = {"video"} /\ Exists(r.job)
    /\ jobs[r.job].image_url = getCachedImage(r.city, r.weather).image_url

\* ------------------------------------------------------------------------ C26
\* C26: a run whose startJob is called for a job id that is not in the ledger
\* stops there: it takes no further step and calls no provider
C26_StartJobOnMissingJobStops ==
  [][\A r \in Runs :
       /\ IsWorkflow(r) /\ r.pc = "start" /\ ~Exists(r.job)
       /\ CopiesIn(r, runs') < CopiesIn(r, runs)
       => runs' = runs (-) One(r)]_vars

\* ------------------------------------------------------------------------ C27
\* the run r calls updateJobStage in this step
UpdatesStage(r) ==
  \/ WfStageWeather(r)
  \/ \E w \in Weathers : WfWeatherOk(r, w) \/ LgWeatherOk(r, w)
  \/ WfStageVideo(r) \/ WfVideoOk(r)
  \/ LgStageVideo(r) \/ LgStageVideoAgain(r)

\* C27: updateJobStage is applied only to a job whose status is processing
C27_StageWriteOnlyWhileProcessing ==
  [][\A r \in Runs :
       UpdatesStage(r) /\ Exists(r.job)
       => jobs[r.job].status = "processing"]_vars

\* ------------------------------------------------------------------------ C28
\* C28: a job becomes completed from processing only, with the stage cleared
\* and completed_at set; every completed job has an artifact URL, a weather
\* snapshot and completed_at
C28_CompleteJob ==
  [][\A j \in JobIds :
       /\ jobs[j].status # "completed" /\ jobs'[j].status = "completed"
          => jobs[j].status = "processing"
       /\ jobs'[j].status = "completed"
          => /\ jobs'[j].stage = "null"
             /\ jobs'[j].completed_at
             /\ jobs'[j].video_url # Null
             /\ jobs'[j].weather_data # "null"]_vars

\* ------------------------------------------------------------------------ C29
\* C29: a job row is removed only while its status is failed
C29_OnlyFailedJobsAreDeleted ==
  [][\A j \in JobIds :
       jobs[j].status # "absent" /\ jobs'[j].status = "absent"
       => jobs[j].status = "failed"]_vars

\* ------------------------------------------------------------------------ C30
\* C30: the operator retry resets a job only while its status is failed, to
\* pending with stage and error message cleared, and starts a run (when the
\* start of the workflow succeeds); a retry that is refused leaves the job as
\* it is and starts no run, and it is refused exactly when the job is not
\* failed
C30_RetryOnlyFailed ==
  [][/\ \A h \in Handlers, started \in BOOLEAN :
          RetryReset(h, started) /\ Exists(h.job)
          => /\ jobs[h.job].status = "failed"
             /\ jobs'[h.job] = [jobs[h.job] EXCEPT !.status = "pending",
                                                   !.stage = "null",
                                                   !.error_message = Null]
             /\ started => CopiesIn(NewRun("video", h.job, h.city), runs')
                             > CopiesIn(NewRun("video", h.job, h.city), runs)
     /\ out'.op = "retry" /\ out'.resp.code # "ok"
          => /\ getJob(out'.job).status # "failed"
             /\ jobs' = jobs /\ runs' = runs]_vars

\* ------------------------------------------------------------------------ C31
\* the run r takes a step of the video processing (processVideoStep in the
\* workflow, generateAnimation in processVideoJob) that ends well / that fails
ProcessingSucceeds(r) == WfProcOk(r) \/ LgAnimOk(r)
ProcessingFails(r) == WfProcFail(r) \/ LgAnimFail(r) \/ LgAnimConvertFail(r)

\* C31: no step of the video processing changes the image_url of any media
\* cache entry; when the processing succeeds the entry of the run has the
\* video URL and animation_status completed, when it fails the entry has
\* animation_status failed
C31_ProcessingKeepsImage ==
  [][\A r \in Runs :
       LET k == <<normalizeCity(r.city), r.weather>> IN
       /\ WfProcMark(r) \/ LgAnimMark(r)
              \/ ProcessingSucceeds(r) \/ ProcessingFails(r)
          => \A m \in MediaKeys : media'[m].image_url = media[m].image_url
       /\ ProcessingSucceeds(r)
          => /\ media'[k].video_url = videoPublicUrl(r.city, r.weather)
             /\ media'[k].animation_status = "completed"
       /\ ProcessingFails(r)
          => media'[k].animation_status = "failed"]_vars

C31_Witness ==
  \E r \in Runs :
    LET entry == getCachedImage(r.city, r.weather) IN
    /\ r.kind = "video" /\ r.pc = "complete"
    /\ entry.animation_status = "completed"
    /\ entry.video_url = r.video
    /\ entry.image_url = imagePublicUrl(r.city, r.weather)

\* ------------------------------------------------------------------------ C32
\* the places of a run in its pipeline, in the order of the code
Places ==
  <<"getJob", "start", "stage1", "weather", "image", "imageGen", "afterImage",
    "video", "stage3", "anim", "animMark", "animGen", "procMark", "proc",
    "complete", "fail", "finish">>

Place(pc) == CHOOSE i \in 1..Len(Places) : Places[i] = pc

\* the run r leaves a stage that raised the error with this message, in the
\* step that hands it to failJob
Raises(r, message) ==
  \/ \E e \in WeatherErrors :
       \/ WfWeatherFail(r, e) /\ message = fetchWeatherStepError(r.city, e)
       \/ LgWeatherFail(r, e) /\ message = <<"Weather fetch failed", e>>
  \/ \E e \in GenerationErrors :
       \/ ImageGenFail(r, e)
            /\ message = IF r.kind = "legacy"
                         THEN <<"Image generation failed", e>> ELSE <<e>>
       \/ WfVideoFail(r, e) /\ message = <<e>>
  \/ (WfFail(r) \/ LgFail(r)) /\ message = r.error

Stranded(j) ==
  /\ getJob(j).status = "pending"
  /\ \A r \in Runs : r.job # j
  /\ \A h \in Handlers : h.job # j

\* C33: when start(cityVideoWorkflow) fails, triggerVideoGeneration returns
\* the id of the job it created as a success, the job row is as createJob
\* left it (pending, no stage) and no run exists for it; and a pending job
\* with no run and no handler stays as it is, no run is ever given to it
C33_FailedStartLeavesJobPending ==
  [][/\ \A h \in Handlers :
          TriggerStart(h, FALSE) \/ TriggerPlainStart(h, FALSE)
          => /\ out'.job = h.job /\ out'.resp.code = "ok"
             /\ jobs' = jobs
             /\ jobs'[h.job].status = "pending"
             /\ jobs'[h.job].stage = "null"
             /\ \A r \in Runs' : r.job # h.job
     /\ \A j \in JobIds :
          Stranded(j) => jobs'[j] = jobs[j] /\ Stranded(j)']_vars

\* a trigger has returned the id of a job whose workflow did not start
C33_Witness ==
  /\ out.op = "trigger" /\ out.resp.code = "ok"
  /\ out.resp.body = <<"alreadyProcessing", FALSE>>
  /\ out.job \in JobIds /\ Stranded(out.job)

\* ------------------------------------------------------------------------ C34
\* the widget cache has an unexpired row for the city and the weather
LiveWidget(city, weather) ==
  getCachedWidgetImage(city, generateWeatherHash(weather)).present

\* the step returns this result of getOrGenerateWidgetImage
WidgetResult(type, cached, needsGeneration, needsVideoGeneration) ==
  /\ out'.op = "widget" /\ out'.resp.code = "widget"
  /\ out'.resp.body[1] = type /\ out'.resp.body[3] = cached
  /\ out'.resp.body[4] = needsGeneration
  /\ out'.resp.body[5] = needsVideoGeneration

\* C34: the tiers of getOrGenerateWidgetImage in order. With an unexpired
\* row the call returns it at once, whatever URLs it was given; without one
\* it renders from the video URL when it has one; it makes the static
\* overlay when it has an image URL and either no video URL or a render that
\* failed; it returns the placeholder, needsGeneration = true, when neither
\* is left
C34_TiersInOrder ==
  [][/\ \A city \in Cities, weather \in Weathers, videoUrl, imageUrl \in BOOLEAN :
          /\ WidgetHit(city, weather, videoUrl, imageUrl)
             => /\ LiveWidget(city, weather)
                /\ WidgetResult("apng", TRUE, FALSE, FALSE)
                /\ out'.resp.body[2]
                     = getCachedWidgetImage(city,
                         generateWeatherHash(weather)).apng_url
                /\ req' = req
          /\ WidgetMiss(city, weather, videoUrl, imageUrl)
               \/ WidgetNothing(city, weather)
             => ~LiveWidget(city, weather)
          /\ WidgetMiss(city, weather, videoUrl, imageUrl)
             => req' = req (+) One(WidgetCall(
                          IF videoUrl THEN "render" ELSE "overlay",
                          city, weather, videoUrl, imageUrl))
          /\ WidgetNothing(city, weather)
             => req' = req /\ WidgetResult("placeholder", FALSE, TRUE, TRUE)
     /\ \A h \in Handlers :
          /\ WidgetApngOk(h)
             => h.arg[2] /\ WidgetResult("apng", FALSE, FALSE, FALSE)
          /\ WidgetApngFail(h)
             => IF h.arg[3]
                THEN req' = (req (-) One(h)) (+) One([h EXCEPT !.pc = "overlay"])
                ELSE WidgetResult("placeholder", FALSE, TRUE, TRUE)
          /\ WidgetOverlayOk(h)
             => h.arg[3] /\ WidgetResult("static", FALSE, FALSE, TRUE)
          /\ WidgetOverlayFail(h)
             => WidgetResult("placeholder", FALSE, TRUE, TRUE)
     /\ \A h \in Handlers' :
          h.op = "widget" /\ CopiesIn(h, req') > CopiesIn(h, req)
          => /\ h.pc = "render" => h.arg[2]
             /\ h.pc = "overlay"
                  => /\ h.arg[3]
                     /\ h.arg[2] => BagIn([h EXCEPT !.pc = "render"], req)
    ]_vars

\* a call with both URLs ended with the placeholder: both fallbacks failed
C34_Witness ==
  /\ out.op = "widget" /\ out.resp.code = "widget"
  /\ out.resp.body[1] = "placeholder" /\ out.resp.body[4] = TRUE
  /\ out.arg[2] = TRUE /\ out.arg[3] = TRUE

\* ------------------------------------------------------------------------ C35
\* the active jobs of the type whose city, normalized, is the normalized city
ActiveJobsOfCity(city, jobType) ==
  {j \in JobIds : /\ normalizeCity(jobs[j].city) = normalizeCity(city)
                  /\ jobs[j].job_type = jobType
                  /\ IsActive(jobs[j])}

\* C35 as stated: getActiveJobForCity returns an active job of the type
\* whenever one exists whose city equals the queried city after
\* normalization of case and blanks, and never a job whose normalized city
\* is another.
C35_LookupByNormalizedCity ==
  \A city \in WrittenCities, jobType \in {"video", "image"} :
    LET id == getActiveJobForCity(city, jobType) IN
    /\ ActiveJobsOfCity(city, jobType) # {} => id # 0
    /\ id # 0 => id \in ActiveJobsOfCity(city, jobType)

\* ------------------------------------------------------------------------ C36
\* the row of the city is there and no longer fresh
StaleWeather(city) ==
  LET cached == weatherCache[normalizeCity(city)] IN
  cached.present /\ ~isCacheFresh(cached.fetched_at)

\* C36: no step of getWeatherForCity removes a row of the weather cache; a
\* fetch that fails throws the provider's error to the caller and leaves
\* every row, the stale one included, with its category and fetched_at; a
\* row changes only when a fetch succeeds
C36_StaleEntryIsKept ==
  [][/\ \A c \in DOMAIN weatherCache :
          /\ weatherCache[c].present => weatherCache'[c].present
          /\ weatherCache'[c] # weatherCache[c]
             => /\ out'.op = "weather" /\ out'.resp.code = "weather"
                /\ normalizeCity(out'.city) = c
                /\ out'.resp.body = <<weatherCache'[c].weather_category, FALSE>>
                /\ weatherCache'[c].fetched_at = now
     /\ \A h \in Handlers, e \in WeatherErrors :
          WeatherFetchFail(h, e)
          => /\ weatherCache' = weatherCache
             /\ out'.resp.code = "throw" /\ out'.resp.message = <<e>>
             /\ out'.city = h.city]_vars

\* the refetch for a stale row has failed and the row is still there
C36_Witness ==
  /\ out.op = "weather" /\ out.resp.code = "throw"
  /\ StaleWeather(out.city)

\* ------------------------------------------------------------------------ C37
\* the handler h was let in although its lookup failed
AfterLookupError(h) == h.arg = <<"lookup failed">>

\* the step appends a pending job of this key, city and type
Creates(key, city, jobType) ==
  /\ Len(jobs') = Len(jobs) + 1
  /\ \A j \in JobIds : jobs'[j] = jobs[j]
  /\ jobs'[Len(jobs')] = [NoJob EXCEPT !.api_key_hash = hashApiKey(key),
                                       !.status = "pending",
                                       !.job_type = jobType, !.city = city]

\* C37: a submission whose getActiveJobForApiKey threw goes on to createJob
\* and creates its job, whatever active job the key has; a trigger whose
\* getActiveJobForCity met a datastore error is told there is no active job
\* and creates a new one, whatever active job the city has
C37_AdmissionFailsOpen ==
  [][/\ \A op \in {"submitVideo", "submitImage"}, key \in Keys, city \in Cities :
          SubmitLookupError(op, key, city)
          => /\ out' = NoOut /\ jobs' = jobs
             /\ \E h \in Handlers' :
                  /\ h.op = op /\ h.pc = "create" /\ h.key = key /\ h.city = city
                  /\ AfterLookupError(h)
                  /\ req' = req (+) One(h)
     /\ \A key \in Keys, city \in Cities :
          TriggerLookupError(key, city)
          => /\ out' = NoOut /\ jobs' = jobs
             /\ \E h \in Handlers' :
                  /\ h.op = "trigger" /\ h.pc = "create" /\ h.city = city
                  /\ h.key = key /\ AfterLookupError(h)
                  /\ req' = req (+) One(h)
     /\ \A h \in Handlers :
          /\ AfterLookupError(h) /\ h.pc = "create"
          /\ CopiesIn(h, req') < CopiesIn(h, req)
          => Creates(h.key, h.city, JobTypeOf(h.op))]_vars

\* a submission let in after a failed lookup has created a second active
\* job for its key
C37_Witness ==
  \E h \in Handlers :
    /\ h.op = "submitImage" /\ h.pc = "start" /\ AfterLookupError(h)
    /\ h.job = 2 /\ jobs[2].status = "pending"
    /\ IsActive(jobs[1]) /\ jobs[1].api_key_hash = hashApiKey(h.key)

\* ------------------------------------------------------------------------ C38
\* the video jobs left pending with nothing at work on them
StrandedVideoJobs == {j \in JobIds : jobs[j].job_type = "video" /\ Stranded(j)}

\* the step is the lookup of a call of triggerVideoGeneration(key, city),
\* whatever its outcome
TriggerLookup(key, city) ==
  TriggerReuse(key, city) \/ TriggerAdmit(key, city)
    \/ TriggerLookupError(key, city)

\* the step adds a run to a video job of the normalized city c
BeginsVideoFor(c) ==
  \E r \in Runs' :
    /\ CopiesIn(r, runs') > CopiesIn(r, runs)
    /\ \A r0 \in Runs : r0.job # r.job
    /\ jobs'[r.job].job_type = "video"
    /\ normalizeCity(jobs'[r.job].city) = c

\* C38 as stated: while a video job of a city is pending with no workflow,
\* every call of triggerVideoGeneration for the city returns the id of that
\* job with alreadyProcessing = true and starts nothing, and no video
\* generation for the city begins.
C38_StrandedJobBlocksTheCity ==
  [][\A j \in StrandedVideoJobs :
       /\ \A key \in Keys, city \in WrittenCities :
            /\ normalizeCity(city) = normalizeCity(jobs[j].city)
            /\ TriggerLookup(key, city)
            => /\ out'.job = j
               /\ out'.resp.body = <<"alreadyProcessing", TRUE>>
               /\ runs' = runs /\ req' = req /\ jobs' = jobs
       /\ ~BeginsVideoFor(normalizeCity(jobs[j].city))]_vars

\* C38 as the code has it: while a video job is pending with no workflow, a
\* call of triggerVideoGeneration whose lookup answers, for a city name the
\* lookup matches to the stored city, creates no job and starts no run; it
\* returns alreadyProcessing = true with the id of the most recent active
\* video job the lookup matches, which is that job unless a newer one is
\* active; and the job stays pending with no run
C38_StrandedJobIsReused ==
  [][\A j \in StrandedVideoJobs :
       /\ \A key \in Keys, city \in WrittenCities :
            ilike(jobs[j].city, toLowerCase(city))
            => /\ ~TriggerAdmit(key, city)
               /\ TriggerReuse(key, city)
                  => /\ out'.resp.body = <<"alreadyProcessing", TRUE>>
                     /\ out'.job = getActiveJobForCity(city, "video")
                     /\ out'.job >= j
                     /\ (\A i \in JobIds :
                           i > j /\ jobs[i].job_type = "video"
                           => ~IsActive(jobs[i]))
                        => out'.job = j
                     /\ runs' = runs /\ req' = req /\ jobs' = jobs
       /\ j \in StrandedVideoJobs']_vars

\* a trigger has been answered with the id of a job left pending
C38_Witness ==
  /\ out.op = "trigger" /\ out.resp.body = <<"alreadyProcessing", TRUE>>
  /\ out.job \in StrandedVideoJobs

\* ------------------------------------------------------------------------ C39
\* C39: every entry of the media cache whose animation_status is completed
\* has a video URL, whatever the order in which the runs that work on the
\* entry take their steps
C39_CompletedHasVideo ==
  \A k \in MediaKeys :
    media[k].animation_status = "completed" => media[k].video_url # Null

\* an entry is completed, with its video, while another run on the same
\* entry is still inside its video processing
C39_Witness ==
  \E r \in Runs :
    /\ r.pc \in {"proc", "animGen"}
    /\ getCachedImage(r.city, r.weather).animation_status = "completed"
    /\ getCachedImage(r.city, r.weather).video_url # Null

\* ------------------------------------------------------------------------ C40
\* the step is step 2 of a submission of the key, whatever its outcome
SubmitLookup(key) ==
  \E op \in {"submitVideo", "submitImage"}, city \in Cities :
    SubmitReject(op, key, city) \/ SubmitAdmit(op, key, city)

\* the active video jobs of the key (in SpecOwner, the jobs its widget
\* requests made triggerVideoGeneration create)
TriggeredActive(key) ==
  {j \in OwnedActive(key) : jobs[j].job_type = "video"}

====
